---- MODULE Spec2Model ----
(***************************************************************************)
(* Model of the adbstatus device monitor: the rule matcher, the action     *)
(* executor and the reconciliation loop, in the two implementations the    *)
(* repository ships: the adbstatus package (adbstatus/monitor.py, "pkg")   *)
(* and the stand-alone script (adb_monitor.py, "legacy").  The device       *)
(* enumerator (adbstatus/core.py, adb_info.py) and the sleep/wake bridge   *)
(* (adbstatus/sleep_monitor.py, sleep_monitor.py) are modelled in the same *)
(* two implementations, each in specifications of its own, as are the     *)
(* poll cycle interleaved with the sleep/wake callback, the monitor        *)
(* process around the loop (_run_service, main), the loop next to a caller  *)
(* of stop, and the status endpoint (adbstatus/server.py,                  *)
(* adb-status-httpd.py).  SpecPollFair and SpecLoopFair add the fairness   *)
(* of the thread that runs the loop in question.                           *)
(*                                                                         *)
(* Python values are represented as follows.  A dict is a function whose   *)
(* DOMAIN is the set of its keys.  None is the string None, which is no    *)
(* script text and no attribute value.  A list is a sequence.  A rule of   *)
(* the configuration is [device |-> selector dict, scripts |-> dict from   *)
(* the action categories the rule defines to their script]; a rule without *)
(* 'device' key, with device: null and with device: {} all take the same   *)
(* branch of the code (a falsy selector) and are the empty selector here.  *)
(* Lists of rules handed from the matcher to the executor hold references  *)
(* to the rule objects of the configuration: they are sequences of         *)
(* positions in config.                                                    *)
(***************************************************************************)
EXTENDS Integers, Sequences, FiniteSets, TLC

VARIABLES impl, config, known_devices, alive, op, polled, log, call, ret

\* The last call of the enumerator: what the listing command did and what
\* get_devices made of it.
VARIABLES enum

enumVars == <<enum>>

\* The sleep/wake bridge.  Shared by every instance: the PID file, the live
\* helper (sleepwatcher) processes, the other live processes.  Per instance:
\* _running, _process, the generated scripts, the directory that holds them,
\* the position inside start or stop, the outcome of the last call.
\* writers lists the instances in the order they wrote the PID file, nspawn
\* counts the helpers spawned so far.
VARIABLES pid_file, helpers, others, running, process, scripts, temp_dir,
          bpc, result, writers, nspawn

bridgeVars == <<pid_file, helpers, others, running, process, scripts, temp_dir,
                bpc, result, writers, nspawn>>

\* The event-poll loop: the marker files of each directory (0 when absent,
\* else the number of the event that wrote the file), the position of each
\* event-poll thread, the event whose marker each thread has found, the
\* callbacks invoked so far and the number of events the helpers have
\* reported.
VARIABLES markers, tpc, timestamp, delivered, nevents

pollVars == <<markers, tpc, timestamp, delivered, nevents>>

monitorVars == <<config, known_devices, alive, op, polled, log, call, ret>>

\* The poll cycle taken statement by statement next to the callback thread:
\* cyc is the position of the polling thread inside check_devices with its
\* local variables, hnd the position of the event-poll thread inside
\* _handle_sleep / _handle_wake with its local variables, status the last
\* result of get_status.
VARIABLES cyc, hnd, status

cycleVars == <<cyc, hnd, status>>

\* The status endpoint: the GET request being answered and its answer.
VARIABLES http

httpVars == <<http>>

\* The service around the loop: the position of the monitor process in
\* _run_service / main and what has happened to the process.
VARIABLES service

serviceVars == <<service>>

\* The reconciliation loop around check_devices: the position of the thread
\* that runs 'while self.running' and the running flag of the monitor.
VARIABLES loop

loopVars == <<loop>>

vars == <<impl, config, known_devices, alive, op, polled, log, call, ret, enumVars,
          bridgeVars, pollVars, cycleVars, httpVars, serviceVars, loopVars>>

(***************************************************************************)
(* Bounds of the model: the number of rules of a configuration, the number *)
(* of lines the listing command prints, the number of helper processes the *)
(* bridges spawn and the number of power events the helpers report.  The   *)
(* bounds MaxDevices, MaxSegments and MaxPolls are defined with the        *)
(* specifications that use them.                                           *)
(***************************************************************************)
MaxRules == 2
MaxLines == 3
MaxSpawns == 2
MaxEvents == 2

(***************************************************************************)
(* Python helpers.                                                         *)
(***************************************************************************)
None == "<None>"

Impls == {"pkg", "legacy"}

Categories == {"connect", "disconnect", "sleep", "wake"}

Get(d, k) == IF k \in DOMAIN d THEN d[k] ELSE None

Falsy(s) == s = None \/ s = ""

Whitespace == {" ", "\n"}

RECURSIVE LStrip(_)
LStrip(s) == IF s # <<>> /\ Head(s) \in Whitespace THEN LStrip(Tail(s)) ELSE s

RECURSIVE RStrip(_)
RStrip(s) ==
  IF s # <<>> /\ s[Len(s)] \in Whitespace THEN RStrip(SubSeq(s, 1, Len(s) - 1)) ELSE s

Strip(s) == RStrip(LStrip(s))

Range(s) == {s[i] : i \in 1..Len(s)}

SeqsUpTo(S, n) == UNION {[1..k -> S] : k \in 0..n}

(***************************************************************************)
(* The scripts of the model and what running each of them does: whether    *)
(* the subprocess call completes or raises, the exit status and the two    *)
(* captured streams (sequences of tokens).  The last script writes a byte  *)
(* that is not UTF-8, so that decoding the captured output raises.         *)
(***************************************************************************)
ScriptTrue == "true"
ScriptEcho == "echo hi"
ScriptBoom == "echo ' boom' >&2; exit 1"
ScriptBadOutput == "printf '\\377'"

ScriptTexts == {ScriptTrue, ScriptEcho, ScriptBoom, ScriptBadOutput}

ShellRun(script) ==
  CASE script = ScriptTrue -> [raises |-> FALSE, returncode |-> 0, stdout |-> <<>>, stderr |-> <<>>]
    [] script = ScriptEcho -> [raises |-> FALSE, returncode |-> 0, stdout |-> <<"hi", "\n">>, stderr |-> <<>>]
    [] script = ScriptBoom -> [raises |-> FALSE, returncode |-> 1, stdout |-> <<>>, stderr |-> <<" ", "boom", "\n">>]
    [] OTHER -> [raises |-> TRUE, returncode |-> 0, stdout |-> <<>>, stderr |-> <<>>]

(***************************************************************************)
(* Rule matcher.                                                           *)
(***************************************************************************)
\* adbstatus/monitor.py: the inner loop of get_matching_configs.
SelectorMatchesPkg(device, device_config) ==
  \A key \in DOMAIN device_config :
    ~(key \notin DOMAIN device \/ device[key] # device_config[key])

\* adb_monitor.py: matches_device.
matches_device(device_info, device_config) ==
  IF DOMAIN device_config = {} THEN TRUE
  ELSE \A key \in DOMAIN device_config : ~(Get(device_info, key) # device_config[key])

RuleMatches(im, device, rule) ==
  IF im = "pkg"
    THEN IF DOMAIN rule.device = {} THEN TRUE ELSE SelectorMatchesPkg(device, rule.device)
    ELSE matches_device(device, rule.device)

\* A variant that puts the new match in front of the earlier ones.
AddMatchInFront(matches, i) == <<i>> \o matches

\* matches.append(config)
AddMatch(matches, i) == Append(matches, i)

RECURSIVE MatchFrom(_, _, _, _, _)
MatchFrom(im, device, config_list, i, matches) ==
  IF i > Len(config_list) THEN matches
  ELSE MatchFrom(im, device, config_list, i + 1,
                 IF RuleMatches(im, device, config_list[i]) THEN AddMatch(matches, i) ELSE matches)

get_matching_configs(im, device, config_list) == MatchFrom(im, device, config_list, 1, <<>>)

(***************************************************************************)
(* Action executor.                                                        *)
(***************************************************************************)
\* The result entry of one script run, or the exception it raises.
\* adbstatus/monitor.py: the try block of run_unique_scripts.
RunScriptPkg(script, action_type) ==
  LET r == ShellRun(script) IN
  IF r.raises THEN [raised |-> FALSE, status |-> "error", category |-> action_type, text |-> <<>>]
  ELSE IF r.returncode = 0
    THEN [raised |-> FALSE, status |-> "successful", category |-> action_type, text |-> <<>>]
    ELSE [raised |-> FALSE, status |-> "failed", category |-> action_type, text |-> Strip(r.stderr)]

\* adb_monitor.py: run_script (try/finally without except).
run_script(script, action_type) ==
  LET r == ShellRun(script) IN
  IF r.raises THEN [raised |-> TRUE, status |-> "error", category |-> None, text |-> <<>>]
  ELSE IF r.returncode # 0
    THEN [raised |-> FALSE, status |-> "failed", category |-> None, text |-> Strip(r.stderr)]
    ELSE IF Strip(r.stdout) # <<>>
      THEN [raised |-> FALSE, status |-> "output", category |-> None, text |-> Strip(r.stdout)]
      ELSE [raised |-> FALSE, status |-> "successful", category |-> None, text |-> <<>>]

RunScript(im, script, action_type) ==
  IF im = "pkg" THEN RunScriptPkg(script, action_type) ELSE run_script(script, action_type)

\* A variant that does not look at the scripts already run.
NewScriptNoDedup(script, seen_scripts) == ~Falsy(script)

\* The negation of the 'continue' condition of run_unique_scripts.
NewScript(script, seen_scripts) == ~(Falsy(script) \/ script \in seen_scripts)

RECURSIVE RunFrom(_, _, _, _, _, _, _, _)
RunFrom(im, rules, configs, action_type, i, seen_scripts, execs, results) ==
  IF i > Len(configs) THEN [raised |-> FALSE, execs |-> execs, results |-> results]
  ELSE
    LET script == Get(rules[configs[i]].scripts, action_type) IN
    IF ~NewScript(script, seen_scripts)
      THEN RunFrom(im, rules, configs, action_type, i + 1, seen_scripts, execs, results)
      ELSE
        LET r == RunScript(im, script, action_type) IN
        IF r.raised
          THEN [raised |-> TRUE, execs |-> Append(execs, script), results |-> <<>>]
          ELSE RunFrom(im, rules, configs, action_type, i + 1, seen_scripts \cup {script},
                       Append(execs, script),
                       Append(results, [status |-> r.status, category |-> r.category, text |-> r.text]))

run_unique_scripts(im, rules, configs, action_type) ==
  RunFrom(im, rules, configs, action_type, 1, {}, <<>>, <<>>)

(***************************************************************************)
(* Reconciliation loop and sleep/wake handlers.  A log entry is one event  *)
(* as the handler processed it: the record it was matched against, the     *)
(* matched rules, the scripts started for it, the result lines written     *)
(* for it and whether the executor raised.                                 *)
(***************************************************************************)
Event(im, rules, kind, device, action_type) ==
  LET matching_configs == get_matching_configs(im, device, rules)
      r == run_unique_scripts(im, rules, matching_configs, action_type)
  IN [kind |-> kind, serial |-> device.serial, device |-> device,
      matched |-> matching_configs, execs |-> r.execs, results |-> r.results,
      raised |-> r.raised]

Raised(entries) == entries # <<>> /\ entries[Len(entries)].raised

\* A variant that treats every enumerated device as new.
IsNewDeviceAlways(serial, known) == TRUE

\* if serial not in self.known_devices
IsNewDevice(serial, known) == serial \notin known

\* A variant that keeps the attributes a device had when it was last seen.
DisconnectRecordWithModel(serial) == [serial |-> serial, state |-> "device", model |-> "Pixel"]

\* device_info = {'serial': serial}
DisconnectRecord(serial) == [serial |-> serial]

\* A variant that patches the known set instead of replacing it.
NextKnownPatched(known, current_devices) == known \cup current_devices

\* self.known_devices = current_devices
NextKnown(known, current_devices) == current_devices

\* The loop over the enumerated devices in check_devices / Monitor.run.
RECURSIVE ConnectFrom(_, _, _, _, _, _)
ConnectFrom(im, rules, known, devices, i, entries) ==
  IF i > Len(devices) \/ Raised(entries) THEN entries
  ELSE ConnectFrom(im, rules, known, devices, i + 1,
         IF IsNewDevice(devices[i].serial, known)
           THEN Append(entries, Event(im, rules, "Connect", devices[i], "connect"))
           ELSE entries)

\* A variant that raises the Disconnect events ahead of the Connect events
\* of the cycle.
RECURSIVE DisconnectFromAhead(_, _, _, _, _)
DisconnectFromAhead(im, rules, gone, i, entries) ==
  IF i > Len(gone) \/ Raised(entries) THEN entries
  ELSE DisconnectFromAhead(im, rules, gone, i + 1,
         <<Event(im, rules, "Disconnect", DisconnectRecord(gone[i]), "disconnect")>> \o entries)

\* The loop over known_devices - current_devices, in the order the set
\* iteration yields its elements.
RECURSIVE DisconnectFrom(_, _, _, _, _)
DisconnectFrom(im, rules, gone, i, entries) ==
  IF i > Len(gone) \/ Raised(entries) THEN entries
  ELSE DisconnectFrom(im, rules, gone, i + 1,
         Append(entries, Event(im, rules, "Disconnect", DisconnectRecord(gone[i]), "disconnect")))

\* The loop over the devices in _handle_sleep / _handle_wake.
RECURSIVE HandleFrom(_, _, _, _, _, _, _)
HandleFrom(im, rules, kind, action_type, devices, i, entries) ==
  IF i > Len(devices) \/ Raised(entries) THEN entries
  ELSE HandleFrom(im, rules, kind, action_type, devices, i + 1,
         Append(entries, Event(im, rules, kind, devices[i], action_type)))

Serials == {"S1", "S2"}

\* The records the enumerator returns in the model: S1 with and without a
\* model attribute, S2 with one.
DeviceRecords ==
  {[serial |-> "S1", state |-> "device"],
   [serial |-> "S1", state |-> "device", model |-> "Pixel"],
   [serial |-> "S2", state |-> "device", model |-> "Pixel"]}

\* The enumerations of the model: every sequence of different records,
\* among them the ones that list the serial S1 on two lines.
DeviceLists ==
  {q \in SeqsUpTo(DeviceRecords, Cardinality(DeviceRecords)) :
     \A i, j \in 1..Len(q) : i # j => q[i] # q[j]}

SerialsOf(devices) == {devices[i].serial : i \in 1..Len(devices)}

Orderings(S) == {q \in [1..Cardinality(S) -> S] : Range(q) = S}

AllCats(sel, s) == [device |-> sel, scripts |-> [c \in Categories |-> s]]

LoopRules ==
  {AllCats(<<>>, ScriptTrue), AllCats(<<>>, ScriptBadOutput),
   AllCats([model |-> "Pixel"], ScriptBoom)}

NoCall == [fn |-> "none", device |-> <<>>, configs |-> <<>>, action_type |-> None]
NoRet == [matches |-> <<>>, raised |-> FALSE, execs |-> <<>>, results |-> <<>>]

NoEnum == [called |-> FALSE, spawned |-> TRUE, returncode |-> 0, stdout |-> <<>>,
           raised |-> FALSE, devices |-> <<>>]

EnumIdle == enum = NoEnum

NoCycle == [pc |-> "idle", devices |-> <<>>, i |-> 0, gone |-> <<>>, events |-> <<>>,
            known |-> {}]
NoHandler == [pc |-> "idle", kind |-> None, devices |-> <<>>, i |-> 0, events |-> <<>>]
NoStatus == [called |-> FALSE, known_devices |-> {}, devices |-> <<>>]

CycleIdle == cyc = NoCycle /\ hnd = NoHandler /\ status = NoStatus

NoBody == [kind |-> "none", devices |-> <<>>, count |-> 0, error |-> ""]
NoHttp == [pc |-> "idle", path |-> <<>>, raised |-> FALSE, code |-> 0, body |-> NoBody]

HttpIdle == http = NoHttp

NoService == [pc |-> "none", bridge |-> "none", polls |-> 0, cause |-> "none", ret |-> None]

ServiceIdle == service = NoService

NoLoop == [pc |-> "none", running |-> FALSE, cause |-> "none"]

LoopIdle == loop = NoLoop

Instances == {1, 2}
Kinds == {"sleep", "wake"}
Absent == "absent"
Garbage == "garbage"
NoResult == [op |-> "none", ret |-> None, msg |-> ""]
NoMarkers == [k \in Kinds |-> 0]

\* No bridge has been constructed.
BridgeIdle ==
  /\ pid_file = Absent
  /\ helpers = {}
  /\ others = {}
  /\ running = [i \in Instances |-> FALSE]
  /\ process = [i \in Instances |-> None]
  /\ scripts = [i \in Instances |-> FALSE]
  /\ temp_dir = [i \in Instances |-> FALSE]
  /\ bpc = [i \in Instances |-> "idle"]
  /\ result = [i \in Instances |-> NoResult]
  /\ writers = <<>>
  /\ nspawn = 0

PollIdle ==
  /\ markers = [i \in Instances |-> NoMarkers]
  /\ tpc = [i \in Instances |-> "none"]
  /\ timestamp = [i \in Instances |-> 0]
  /\ delivered = <<>>
  /\ nevents = 0

Init ==
  /\ EnumIdle
  /\ CycleIdle
  /\ HttpIdle
  /\ ServiceIdle
  /\ LoopIdle
  /\ BridgeIdle
  /\ PollIdle
  /\ impl \in Impls
  /\ config \in SeqsUpTo(LoopRules, MaxRules)
  /\ known_devices = {}
  /\ alive = TRUE
  /\ op = "init"
  /\ polled = <<>>
  /\ log = <<>>
  /\ call = NoCall
  /\ ret = NoRet

\* ADBStatusMonitor.check_devices / one iteration of Monitor.run.
CheckDevices ==
  /\ alive
  /\ \E devices \in DeviceLists :
       LET current_devices == SerialsOf(devices) IN
       \E gone \in Orderings(known_devices \ current_devices) :
         /\ polled' = devices
         /\ log' = DisconnectFrom(impl, config, gone, 1,
                      ConnectFrom(impl, config, known_devices, devices, 1, <<>>))
         /\ known_devices' = IF Raised(log') THEN known_devices
                              ELSE NextKnown(known_devices, current_devices)
         /\ alive' = ~Raised(log')
  /\ op' = "poll"
  /\ UNCHANGED <<impl, config, call, ret, enumVars, loopVars, cycleVars, httpVars, serviceVars, bridgeVars, pollVars>>

\* _handle_sleep, invoked by the bridge, which catches what it raises.
HandleSleep ==
  /\ alive
  /\ \E devices \in DeviceLists :
       /\ polled' = devices
       /\ log' = HandleFrom(impl, config, "Sleep", "sleep", devices, 1, <<>>)
  /\ op' = "sleep"
  /\ UNCHANGED <<impl, config, known_devices, alive, call, ret, enumVars, loopVars, cycleVars, httpVars, serviceVars, bridgeVars, pollVars>>

\* _handle_wake, invoked by the bridge, which catches what it raises.
HandleWake ==
  /\ alive
  /\ \E devices \in DeviceLists :
       /\ polled' = devices
       /\ log' = HandleFrom(impl, config, "Wake", "wake", devices, 1, <<>>)
  /\ op' = "wake"
  /\ UNCHANGED <<impl, config, known_devices, alive, call, ret, enumVars, loopVars, cycleVars, httpVars, serviceVars, bridgeVars, pollVars>>

Next == CheckDevices \/ HandleSleep \/ HandleWake

Spec == Init /\ [][Next]_vars

TypeOK ==
  /\ impl \in Impls
  /\ known_devices \subseteq Serials
  /\ alive \in BOOLEAN
  /\ op \in {"init", "poll", "sleep", "wake", "match", "run", "enumerator_failed",
            "enumerator_raised"}

(***************************************************************************)
(* The matcher and the executor called on their own, over a configuration  *)
(* drawn from a wider set of rules: selectors on one and on two keys, a    *)
(* selector with a null value, rules that define a script for every        *)
(* category, and a rule that defines an empty one, a null one and none.    *)
(***************************************************************************)
CallSelectors ==
  {<<>>, [model |-> "Pixel"], [model |-> None], [serial |-> "S1"],
   [serial |-> "S1", model |-> "Pixel"]}

CallScripts ==
  {[c \in Categories |-> ScriptTrue], [c \in Categories |-> ScriptBoom],
   [c \in Categories |-> ScriptBadOutput],
   [connect |-> ScriptEcho, disconnect |-> "", sleep |-> None]}

CallRules == {[device |-> d, scripts |-> sc] : d \in CallSelectors, sc \in CallScripts}

\* What the callers hand to the matcher: an enumerated record, or the
\* record check_devices builds for a vanished serial.
MatchInputs == DeviceRecords \cup {DisconnectRecord(s) : s \in Serials}

InitCalls ==
  /\ EnumIdle
  /\ CycleIdle
  /\ HttpIdle
  /\ ServiceIdle
  /\ LoopIdle
  /\ BridgeIdle
  /\ PollIdle
  /\ impl \in Impls
  /\ config \in SeqsUpTo(CallRules, MaxRules)
  /\ known_devices = {}
  /\ alive = TRUE
  /\ op = "init"
  /\ polled = <<>>
  /\ log = <<>>
  /\ call = NoCall
  /\ ret = NoRet

\* Each behaviour of SpecCalls is one call on one configuration.
CallGetMatchingConfigs ==
  /\ op = "init"
  /\ \E device \in MatchInputs :
       /\ call' = [fn |-> "get_matching_configs", device |-> device, configs |-> <<>>,
                   action_type |-> None]
       /\ ret' = [matches |-> get_matching_configs(impl, device, config), raised |-> FALSE,
                  execs |-> <<>>, results |-> <<>>]
  /\ op' = "match"
  /\ UNCHANGED <<impl, config, known_devices, alive, polled, log, enumVars, loopVars, cycleVars, httpVars, serviceVars, bridgeVars, pollVars>>

CallRunUniqueScripts ==
  /\ op = "init"
  /\ \E device \in MatchInputs, action_type \in Categories :
       LET configs == get_matching_configs(impl, device, config)
           r == run_unique_scripts(impl, config, configs, action_type)
       IN /\ call' = [fn |-> "run_unique_scripts", device |-> device, configs |-> configs,
                      action_type |-> action_type]
          /\ ret' = [matches |-> configs, raised |-> r.raised, execs |-> r.execs,
                     results |-> r.results]
  /\ op' = "run"
  /\ UNCHANGED <<impl, config, known_devices, alive, polled, log, enumVars, loopVars, cycleVars, httpVars, serviceVars, bridgeVars, pollVars>>

NextCalls == CallGetMatchingConfigs \/ CallRunUniqueScripts

SpecCalls == InitCalls /\ [][NextCalls]_vars

(***************************************************************************)
(* Device enumerator.  The output of the listing command is a sequence of  *)
(* lines, a line is the sequence of its whitespace-separated tokens (none  *)
(* for a blank line) and a token is the sequence of the pieces its colons  *)
(* separate: model:Pixel is <<"model", "Pixel">>.                          *)
(***************************************************************************)
RECURSIVE JoinColon(_)
JoinColon(pieces) ==
  IF Len(pieces) = 1 THEN pieces[1] ELSE pieces[1] \o ":" \o JoinColon(Tail(pieces))

\* The loop over parts[2:]: key, value = part.split(':', 1).
RECURSIVE AddProperties(_, _, _)
AddProperties(device_info, parts, i) ==
  IF i > Len(parts) THEN device_info
  ELSE AddProperties(IF Len(parts[i]) >= 2
                       THEN (parts[i][1] :> JoinColon(Tail(parts[i]))) @@ device_info
                       ELSE device_info,
                     parts, i + 1)

\* The loop over stdout.splitlines()[1:]; parts[1] of a line with a single
\* token raises IndexError.
RECURSIVE ParseFrom(_, _, _)
ParseFrom(lines, i, devices) ==
  IF i > Len(lines) THEN [raised |-> FALSE, devices |-> devices]
  ELSE IF lines[i] = <<>> THEN ParseFrom(lines, i + 1, devices)
  ELSE IF Len(lines[i]) < 2 THEN [raised |-> TRUE, devices |-> <<>>]
  ELSE ParseFrom(lines, i + 1,
         Append(devices,
                AddProperties([serial |-> JoinColon(lines[i][1]), state |-> JoinColon(lines[i][2])],
                              lines[i], 3)))

\* except subprocess.SubprocessError: a failure to spawn the command is an
\* OSError, which the clause does not catch.
CaughtBySubprocessError(spawned) == spawned

\* ADBStatus.get_devices (core.py).
GetDevicesPkg(spawned, returncode, stdout) ==
  IF ~spawned
    THEN [raised |-> ~CaughtBySubprocessError(spawned), devices |-> <<>>]
  ELSE IF returncode # 0 THEN [raised |-> FALSE, devices |-> <<>>]
  ELSE ParseFrom(stdout, 2, <<>>)

\* ADBInfo.get_devices (adb_info.py): no try, no test of the exit status.
GetDevicesLegacy(spawned, returncode, stdout) ==
  IF ~spawned THEN [raised |-> TRUE, devices |-> <<>>]
  ELSE ParseFrom(stdout, 2, <<>>)

get_devices(im, spawned, returncode, stdout) ==
  IF im = "pkg" THEN GetDevicesPkg(spawned, returncode, stdout)
  ELSE GetDevicesLegacy(spawned, returncode, stdout)

HeaderLine == <<<<"List">>, <<"of">>, <<"devices">>, <<"attached">>>>

OutputLines ==
  {HeaderLine,
   <<>>,
   <<<<"S1">>>>,
   <<<<"S1">>, <<"device">>>>,
   <<<<"S2">>, <<"device">>, <<"model", "Pixel">>>>,
   <<<<"192.168.1.5", "5555">>, <<"offline">>, <<"usb", "1-1", "2">>, <<"x">>>>}

Outputs == SeqsUpTo(OutputLines, MaxLines)

InitEnum ==
  /\ EnumIdle
  /\ CycleIdle
  /\ HttpIdle
  /\ ServiceIdle
  /\ LoopIdle
  /\ BridgeIdle
  /\ PollIdle
  /\ impl \in Impls
  /\ config = <<>>
  /\ known_devices = {}
  /\ alive = TRUE
  /\ op = "init"
  /\ polled = <<>>
  /\ log = <<>>
  /\ call = NoCall
  /\ ret = NoRet

\* One call of get_devices: the listing command cannot be spawned, or it
\* runs, exits with returncode and has printed stdout.
CallGetDevices ==
  /\ ~enum.called
  /\ \E spawned \in BOOLEAN, returncode \in {0, 1}, stdout \in Outputs :
       /\ spawned \/ (returncode = 0 /\ stdout = <<>>)
       /\ LET r == get_devices(impl, spawned, returncode, stdout) IN
          enum' = [called |-> TRUE, spawned |-> spawned, returncode |-> returncode,
                   stdout |-> stdout, raised |-> r.raised, devices |-> r.devices]
  /\ UNCHANGED <<impl, config, known_devices, alive, op, polled, log, call, ret,
                 bridgeVars, pollVars, cycleVars, httpVars, serviceVars, loopVars>>

NextEnum == CallGetDevices

SpecEnum == InitEnum /\ [][NextEnum]_vars

(***************************************************************************)
(* Sleep/wake bridge: start and stop.  The package bridge is               *)
(* ADBStatusSleepMonitor (adbstatus/sleep_monitor.py), the legacy bridge   *)
(* is SleepMonitor (sleep_monitor.py).  Process ids are names; the PID     *)
(* file holds one of them, or unparsable text, or is absent.               *)
(***************************************************************************)
ExternalPid == "p1"
DeadPid == "p2"
HelperPids == <<"p3", "p4", "p5", "p6">>
NewPid(n) == HelperPids[n + 1]

\* The directory an instance works in: the package uses one fixed event
\* directory, the legacy bridge a fresh temporary directory per instance.
Dir(im, i) == IF im = "pkg" THEN 1 ELSE i

\* A variant that never recognises the process the PID file names.
IsSleepwatcherNever(pid, live_helpers) == FALSE

\* 'sleepwatcher' in process.name() or in process.cmdline().
IsSleepwatcher(pid, live_helpers) == pid \in live_helpers

\* SleepMonitor._is_already_running: the file is believed only when it
\* names a live sleepwatcher; a file naming no process or holding garbage
\* is unlinked; then every sleepwatcher found by the scan is terminated.
IsAlreadyRunningLegacy(file, live_helpers, live_others) ==
  IF file \notin {Absent, Garbage} /\ IsSleepwatcher(file, live_helpers)
    THEN [raised |-> FALSE, result |-> TRUE, pid_file |-> file, helpers |-> live_helpers]
    ELSE [raised |-> FALSE, result |-> FALSE,
          pid_file |-> IF file \in live_helpers \cup live_others THEN file ELSE Absent,
          helpers |-> {}]

\* ADBStatusSleepMonitor._is_already_running: psutil.pid_exists(pid); the
\* file is never removed and no process is scanned.  On unparsable text the
\* except clause names psutil before the import has bound it, which raises
\* UnboundLocalError.
IsAlreadyRunningPkg(file, live_helpers, live_others) ==
  [raised |-> file = Garbage,
   result |-> file \in live_helpers \cup live_others,
   pid_file |-> file,
   helpers |-> live_helpers]

is_already_running(im, file, live_helpers, live_others) ==
  IF im = "pkg" THEN IsAlreadyRunningPkg(file, live_helpers, live_others)
  ELSE IsAlreadyRunningLegacy(file, live_helpers, live_others)

\* What became of the attempt to locate and spawn the helper: no executable
\* found, Popen raising FileNotFoundError, Popen raising another error, or
\* a running helper.
SpawnOutcomes == {"no_helper", "enoent", "oserror", "ok"}

\* A variant in which only the last except clause ends the attempt.
AfterSpawnIgnoringFailure(outcome) ==
  IF outcome = "oserror" THEN "cleanup" ELSE "write"

\* Where start continues after the attempt: the first except clause returns
\* at once, the second runs _cleanup_scripts first.
AfterSpawn(outcome) ==
  CASE outcome = "ok" -> "write"
    [] outcome = "oserror" -> "cleanup"
    [] OTHER -> "idle"

\* A variant that keeps the file another instance has written.
PidAfterWriteExclusive(file, pid) == IF file = Absent THEN pid ELSE file

\* open(PID_FILE, 'w') and write(str(pid)).
PidAfterWrite(file, pid) == pid

\* _setup_scripts of the legacy bridge: mkdtemp and the two scripts.
SetupScriptsLegacy(i, sc, td) ==
  [scripts |-> [sc EXCEPT ![i] = TRUE], temp_dir |-> [td EXCEPT ![i] = TRUE]]

\* _setup_scripts of the package: the two scripts in the event directory.
SetupScriptsPkg(i, sc, td) ==
  [scripts |-> [sc EXCEPT ![i] = TRUE], temp_dir |-> [td EXCEPT ![1] = TRUE]]

setup_scripts(im, i, sc, td) ==
  IF im = "pkg" THEN SetupScriptsPkg(i, sc, td) ELSE SetupScriptsLegacy(i, sc, td)

StartResult(r, m) == [op |-> "start", ret |-> r, msg |-> m]

\* start up to the liveness check: if self._running ... if
\* self._is_already_running() ...
StartCheck(i) ==
  /\ bpc[i] = "idle"
  /\ IF running[i]
       THEN /\ result' = [result EXCEPT ![i] = StartResult("False", "monitor_running")]
            /\ UNCHANGED <<pid_file, helpers, bpc>>
       ELSE LET r == is_already_running(impl, pid_file, helpers, others) IN
            /\ pid_file' = r.pid_file
            /\ helpers' = IF r.raised THEN helpers ELSE r.helpers
            /\ result' = [result EXCEPT ![i] =
                 IF r.raised THEN StartResult("raised", "UnboundLocalError")
                 ELSE IF r.result THEN StartResult("False", "already_running")
                 ELSE StartResult("pending", "")]
            /\ bpc' = [bpc EXCEPT ![i] = IF r.raised \/ r.result THEN "idle" ELSE "spawn"]
  /\ UNCHANGED <<others, running, process, scripts, temp_dir, writers, nspawn>>
  /\ UNCHANGED <<impl, monitorVars, enumVars, loopVars, cycleVars, httpVars, serviceVars, pollVars>>

\* start from locating the helper to Popen.
StartSpawn(i) ==
  /\ bpc[i] = "spawn"
  /\ \E outcome \in SpawnOutcomes :
       LET made == setup_scripts(impl, i, scripts, temp_dir) IN
       /\ outcome = "ok" => nspawn < MaxSpawns
       /\ scripts' = IF outcome = "no_helper" THEN scripts ELSE made.scripts
       /\ temp_dir' = IF outcome = "no_helper" THEN temp_dir ELSE made.temp_dir
       /\ process' = IF outcome = "ok" THEN [process EXCEPT ![i] = NewPid(nspawn)] ELSE process
       /\ helpers' = IF outcome = "ok" THEN helpers \cup {NewPid(nspawn)} ELSE helpers
       /\ nspawn' = IF outcome = "ok" THEN nspawn + 1 ELSE nspawn
       /\ result' = [result EXCEPT ![i] =
            CASE outcome = "ok" -> StartResult("pending", "")
              [] outcome = "oserror" -> StartResult("pending", "error_starting")
              [] OTHER -> StartResult("False", "not_installed")]
       /\ bpc' = [bpc EXCEPT ![i] = AfterSpawn(outcome)]
  /\ UNCHANGED <<pid_file, others, running, writers>>
  /\ UNCHANGED <<impl, monitorVars, enumVars, loopVars, cycleVars, httpVars, serviceVars, pollVars>>

\* start from _write_pid_file to return True.  The legacy bridge swallows a
\* failure to write the file; in the package it reaches the last except
\* clause of start.
StartWrite(i) ==
  /\ bpc[i] = "write"
  /\ \E ok \in BOOLEAN :
       LET wrote == ok /\ process[i] # None
           failed == ~ok /\ process[i] # None /\ impl = "pkg"
       IN
       /\ pid_file' = IF wrote THEN PidAfterWrite(pid_file, process[i]) ELSE pid_file
       /\ writers' = IF wrote THEN Append(writers, i) ELSE writers
       /\ running' = IF failed THEN running ELSE [running EXCEPT ![i] = TRUE]
       /\ tpc' = IF failed THEN tpc ELSE [tpc EXCEPT ![i] = "loop"]
       /\ result' = [result EXCEPT ![i] =
            IF failed THEN StartResult("pending", "error_starting")
            ELSE StartResult("True", "")]
       /\ bpc' = [bpc EXCEPT ![i] = IF failed THEN "cleanup" ELSE "idle"]
  /\ UNCHANGED <<helpers, others, process, scripts, temp_dir, nspawn>>
  /\ UNCHANGED <<impl, monitorVars, enumVars, loopVars, cycleVars, httpVars, serviceVars, markers, timestamp, delivered, nevents>>

\* A variant of the guard of stop that never returns early.
StopIsNoopNever(is_running) == FALSE

\* if not self._running: return
StopIsNoop(is_running) == ~is_running

\* What stop returns: the legacy stop returns None; the package declares a
\* boolean status.
StopRet(im) == IF im = "pkg" THEN "True" ELSE None

\* The value the call in progress returns once its cleanup is over.
Returned(im, r) ==
  [r EXCEPT !.ret = IF r.op = "start" THEN "False" ELSE StopRet(im)]

\* A variant of stop that terminates the helper first and removes the PID
\* file afterwards.
StopStepsTerminateFirst(im) ==
  <<"stop_term", "stop_pid", IF im = "pkg" THEN "stop_cleanup" ELSE "cleanup">>

\* The statements of stop after the flag is cleared, in their order:
\* _remove_pid_file(), the termination of the helper with the release of
\* the process handle, the cleanup of the generated files.
StopSteps(im) ==
  <<"stop_pid", "stop_term", IF im = "pkg" THEN "stop_cleanup" ELSE "cleanup">>

\* The statement of stop that follows the one at position pc.
AfterStopStep(im, pc) ==
  LET q == StopSteps(im)
      k == CHOOSE n \in 1..Len(q) : q[n] = pc
  IN q[k + 1]

\* The beginning of stop: the early return of a stopped bridge, else the
\* running flag is cleared.
Stop(i) ==
  /\ bpc[i] = "idle"
  /\ IF StopIsNoop(running[i])
       THEN /\ result' = [result EXCEPT ![i] = [op |-> "stop", ret |-> StopRet(impl), msg |-> ""]]
            /\ UNCHANGED <<running, bpc>>
       ELSE /\ running' = [running EXCEPT ![i] = FALSE]
            /\ result' = [result EXCEPT ![i] = [op |-> "stop", ret |-> "pending", msg |-> ""]]
            /\ bpc' = [bpc EXCEPT ![i] = StopSteps(impl)[1]]
  /\ UNCHANGED <<pid_file, helpers, process, others, scripts, temp_dir, writers, nspawn>>
  /\ UNCHANGED <<impl, monitorVars, enumVars, loopVars, cycleVars, httpVars, serviceVars, pollVars>>

\* self._remove_pid_file() inside stop.
StopRemovePid(i) ==
  /\ bpc[i] = "stop_pid"
  /\ pid_file' = Absent
  /\ bpc' = [bpc EXCEPT ![i] = AfterStopStep(impl, "stop_pid")]
  /\ UNCHANGED <<helpers, process, result, others, running, scripts, temp_dir, writers, nspawn>>
  /\ UNCHANGED <<impl, monitorVars, enumVars, loopVars, cycleVars, httpVars, serviceVars, pollVars>>

\* The helper is terminated and, when it does not exit in time, killed;
\* then the process handle is dropped.
StopTerminate(i) ==
  /\ bpc[i] = "stop_term"
  /\ helpers' = helpers \ {process[i]}
  /\ process' = [process EXCEPT ![i] = None]
  /\ \E exited \in BOOLEAN :
       result' = [result EXCEPT ![i].msg =
                    IF process[i] = None THEN ""
                    ELSE IF exited THEN "terminated" ELSE "killed"]
  /\ bpc' = [bpc EXCEPT ![i] = AfterStopStep(impl, "stop_term")]
  /\ UNCHANGED <<pid_file, others, running, scripts, temp_dir, writers, nspawn>>
  /\ UNCHANGED <<impl, monitorVars, enumVars, loopVars, cycleVars, httpVars, serviceVars, pollVars>>

\* Where the legacy _cleanup_scripts continues once the marker of kind k has
\* been dealt with.
AfterMarker(k, ms) ==
  IF k = "sleep" /\ ms["wake"] # 0 THEN "rm_wake" ELSE "rmdir"

\* _cleanup_scripts up to the first test of a marker file.  The package
\* unlinks its two scripts and nothing else.
CleanupScripts(i) ==
  /\ bpc[i] = "cleanup"
  /\ IF impl = "pkg"
       THEN /\ scripts' = [scripts EXCEPT ![i] = FALSE]
            /\ bpc' = [bpc EXCEPT ![i] = "idle"]
            /\ result' = [result EXCEPT ![i] = Returned(impl, result[i])]
       ELSE IF ~temp_dir[i]
       THEN /\ bpc' = [bpc EXCEPT ![i] = "idle"]
            /\ result' = [result EXCEPT ![i] = Returned(impl, result[i])]
            /\ UNCHANGED scripts
       ELSE /\ scripts' = [scripts EXCEPT ![i] = FALSE]
            /\ bpc' = [bpc EXCEPT ![i] =
                 IF markers[i]["sleep"] # 0 THEN "rm_sleep"
                 ELSE AfterMarker("sleep", markers[i])]
            /\ UNCHANGED result
  /\ UNCHANGED <<pid_file, helpers, others, running, process, temp_dir, writers, nspawn>>
  /\ UNCHANGED <<impl, monitorVars, enumVars, loopVars, cycleVars, httpVars, serviceVars, pollVars>>

\* os.remove(marker_path) of a marker that os.path.exists has just seen; if
\* the file has gone in between, the exception ends _cleanup_scripts.
CleanupMarker(i, k) ==
  /\ bpc[i] = "rm_" \o k
  /\ IF markers[i][k] # 0
       THEN /\ markers' = [markers EXCEPT ![i][k] = 0]
            /\ bpc' = [bpc EXCEPT ![i] = AfterMarker(k, markers[i])]
            /\ UNCHANGED result
       ELSE /\ bpc' = [bpc EXCEPT ![i] = "idle"]
            /\ result' = [result EXCEPT ![i] = Returned(impl, result[i])]
            /\ UNCHANGED markers
  /\ UNCHANGED <<pid_file, helpers, others, running, process, scripts, temp_dir,
                 writers, nspawn>>
  /\ UNCHANGED <<impl, monitorVars, enumVars, loopVars, cycleVars, httpVars, serviceVars, tpc, timestamp, delivered, nevents>>

\* os.rmdir(self._temp_dir), which fails on a directory that is not empty.
CleanupRmdir(i) ==
  /\ bpc[i] = "rmdir"
  /\ temp_dir' = IF markers[i] = NoMarkers THEN [temp_dir EXCEPT ![i] = FALSE] ELSE temp_dir
  /\ bpc' = [bpc EXCEPT ![i] = "idle"]
  /\ result' = [result EXCEPT ![i] = Returned(impl, result[i])]
  /\ UNCHANGED <<pid_file, helpers, others, running, process, scripts, writers, nspawn>>
  /\ UNCHANGED <<impl, monitorVars, enumVars, loopVars, cycleVars, httpVars, serviceVars, pollVars>>

\* The end of stop in the package: the generated scripts and the event
\* directory are deleted.
StopCleanupPkg(i) ==
  /\ bpc[i] = "stop_cleanup"
  /\ scripts' = [scripts EXCEPT ![i] = FALSE]
  /\ temp_dir' = [temp_dir EXCEPT ![1] = FALSE]
  /\ markers' = [markers EXCEPT ![1] = NoMarkers]
  /\ bpc' = [bpc EXCEPT ![i] = "idle"]
  /\ result' = [result EXCEPT ![i] = Returned(impl, result[i])]
  /\ UNCHANGED <<pid_file, helpers, others, running, process, writers, nspawn>>
  /\ UNCHANGED <<impl, monitorVars, enumVars, loopVars, cycleVars, httpVars, serviceVars, tpc, timestamp, delivered, nevents>>

MonitorIdle ==
  /\ config = <<>>
  /\ known_devices = {}
  /\ alive = TRUE
  /\ op = "init"
  /\ polled = <<>>
  /\ log = <<>>
  /\ call = NoCall
  /\ ret = NoRet

\* Two bridge instances that have been constructed and not started.  A PID
\* file may be left from an earlier run, and a process the bridges did not
\* spawn may be alive: a sleepwatcher or something else.
InitBridge ==
  /\ EnumIdle
  /\ CycleIdle
  /\ HttpIdle
  /\ ServiceIdle
  /\ LoopIdle
  /\ MonitorIdle
  /\ PollIdle
  /\ impl \in Impls
  /\ pid_file \in {Absent, Garbage, ExternalPid, DeadPid}
  /\ \E external \in {"none", "helper", "other"} :
       /\ helpers = IF external = "helper" THEN {ExternalPid} ELSE {}
       /\ others = IF external = "other" THEN {ExternalPid} ELSE {}
  /\ running = [i \in Instances |-> FALSE]
  /\ process = [i \in Instances |-> None]
  /\ scripts = [i \in Instances |-> FALSE]
  /\ temp_dir = [i \in Instances |-> impl = "pkg" /\ i = 1]
  /\ bpc = [i \in Instances |-> "idle"]
  /\ result = [i \in Instances |-> NoResult]
  /\ writers = <<>>
  /\ nspawn = 0

BridgeStep(i) ==
  \/ StartCheck(i)
  \/ StartSpawn(i)
  \/ StartWrite(i)
  \/ Stop(i)
  \/ StopRemovePid(i)
  \/ StopTerminate(i)
  \/ CleanupScripts(i)
  \/ CleanupRmdir(i)
  \/ StopCleanupPkg(i)

\* The instances call start and stop at any time, also concurrently.
NextBridge == \E i \in Instances : BridgeStep(i)

SpecBridge == InitBridge /\ [][NextBridge]_vars

\* The calls do not overlap: an instance takes a step only while no other
\* instance is inside start or stop.
NextBridgeSeq ==
  \E i \in Instances :
    /\ \A j \in Instances \ {i} : bpc[j] = "idle"
    /\ BridgeStep(i)

SpecBridgeSeq == InitBridge /\ [][NextBridgeSeq]_vars

(***************************************************************************)
(* Sleep/wake bridge: the event-poll loop (_check_for_events) of a running *)
(* bridge, the helper that reports power events by running the generated   *)
(* scripts, and stop, which runs on the caller's thread while the loop      *)
(* goes on.                                                                  *)
(***************************************************************************)
\* The helper runs the sleep or wake script, which writes the marker file.
HelperEvent(i, k) ==
  /\ process[i] \in helpers
  /\ scripts[i]
  /\ temp_dir[Dir(impl, i)]
  /\ nevents < MaxEvents
  /\ nevents' = nevents + 1
  /\ markers' = [markers EXCEPT ![Dir(impl, i)][k] = nevents + 1]
  /\ UNCHANGED <<impl, monitorVars, enumVars, loopVars, cycleVars, httpVars, serviceVars, bridgeVars, tpc, timestamp, delivered>>

\* A variant that handles at most one marker per iteration: a handled sleep
\* marker sends the loop back to its top.
NextCheckOnePerIteration(k) == "loop"

\* Where the loop goes once it is done with the marker of kind k.
NextCheck(k) == IF k = "sleep" THEN "check_wake" ELSE "loop"

\* A variant of the loop that never tests the flag: while True.
PollLoopForever(i) ==
  /\ tpc[i] = "loop"
  /\ tpc' = [tpc EXCEPT ![i] = "check_sleep"]
  /\ UNCHANGED <<impl, monitorVars, enumVars, loopVars, cycleVars, httpVars, serviceVars, bridgeVars, markers, timestamp, delivered,
                 nevents>>

\* while self._running (with the time.sleep(0.5) that precedes the test).
PollLoop(i) ==
  /\ tpc[i] = "loop"
  /\ tpc' = [tpc EXCEPT ![i] = IF running[i] THEN "check_sleep" ELSE "none"]
  /\ UNCHANGED <<impl, monitorVars, enumVars, loopVars, cycleVars, httpVars, serviceVars, bridgeVars, markers, timestamp, delivered,
                 nevents>>

\* if os.path.exists(marker): the legacy loop reads the file next, the
\* package unlinks it next.
PollCheck(i, k) ==
  /\ tpc[i] = "check_" \o k
  /\ LET found == markers[Dir(impl, i)][k] IN
     /\ tpc' = [tpc EXCEPT ![i] =
          IF found = 0 THEN NextCheck(k)
          ELSE IF impl = "pkg" THEN "unlink_" \o k ELSE "call_" \o k]
     /\ timestamp' = IF found # 0 /\ impl = "legacy"
                       THEN [timestamp EXCEPT ![i] = found] ELSE timestamp
  /\ UNCHANGED <<impl, monitorVars, enumVars, loopVars, cycleVars, httpVars, serviceVars, bridgeVars, markers, delivered, nevents>>

\* os.unlink(marker) of the package loop, outside any try: a marker that
\* has gone since the test ends the thread.
PollUnlink(i, k) ==
  /\ impl = "pkg"
  /\ tpc[i] = "unlink_" \o k
  /\ LET found == markers[Dir(impl, i)][k] IN
     /\ tpc' = [tpc EXCEPT ![i] = IF found = 0 THEN "dead" ELSE "call_" \o k]
     /\ timestamp' = IF found = 0 THEN timestamp ELSE [timestamp EXCEPT ![i] = found]
     /\ markers' = [markers EXCEPT ![Dir(impl, i)][k] = 0]
  /\ UNCHANGED <<impl, monitorVars, enumVars, loopVars, cycleVars, httpVars, serviceVars, bridgeVars, delivered, nevents>>

\* A variant without the except clause around the callback.
AfterCallUncaught(im, k, raises) ==
  IF raises THEN "dead"
  ELSE IF im = "pkg" THEN NextCheck(k) ELSE "rm_" \o k

\* Where the loop goes after the callback: try: callback() except
\* Exception: log; the legacy loop removes the marker next.
AfterCall(im, k, raises) ==
  IF im = "pkg" THEN NextCheck(k) ELSE "rm_" \o k

\* The callback is invoked and returns or raises.
PollCall(i, k) ==
  /\ tpc[i] = "call_" \o k
  /\ \E raises \in BOOLEAN :
       /\ delivered' = Append(delivered,
            [kind |-> k, event |-> timestamp[i],
             marker |-> markers[Dir(impl, i)][k], raised |-> raises])
       /\ tpc' = [tpc EXCEPT ![i] = AfterCall(impl, k, raises)]
  /\ UNCHANGED <<impl, monitorVars, enumVars, loopVars, cycleVars, httpVars, serviceVars, bridgeVars, markers, timestamp, nevents>>

\* os.remove(marker) of the legacy loop, after the callback; a failure is
\* caught by the outer except clause.
PollRemove(i, k) ==
  /\ impl = "legacy"
  /\ tpc[i] = "rm_" \o k
  /\ markers' = [markers EXCEPT ![Dir(impl, i)][k] = 0]
  /\ tpc' = [tpc EXCEPT ![i] = NextCheck(k)]
  /\ UNCHANGED <<impl, monitorVars, enumVars, loopVars, cycleVars, httpVars, serviceVars, bridgeVars, timestamp, delivered, nevents>>

\* Instance 1 has been started: its helper runs, the PID file names the
\* helper, the scripts exist and the event-poll thread is about to test
\* the flag.  Instance 2 has not been started.
InitPoll ==
  /\ EnumIdle
  /\ CycleIdle
  /\ HttpIdle
  /\ ServiceIdle
  /\ LoopIdle
  /\ MonitorIdle
  /\ impl \in Impls
  /\ pid_file = NewPid(0)
  /\ helpers = {NewPid(0)}
  /\ others = {}
  /\ running = [i \in Instances |-> i = 1]
  /\ process = [i \in Instances |-> IF i = 1 THEN NewPid(0) ELSE None]
  /\ scripts = [i \in Instances |-> i = 1]
  /\ temp_dir = [i \in Instances |-> i = 1]
  /\ bpc = [i \in Instances |-> "idle"]
  /\ result = [i \in Instances |-> IF i = 1 THEN StartResult("True", "") ELSE NoResult]
  /\ writers = <<1>>
  /\ nspawn = 1
  /\ markers = [i \in Instances |-> NoMarkers]
  /\ tpc = [i \in Instances |-> IF i = 1 THEN "loop" ELSE "none"]
  /\ timestamp = [i \in Instances |-> 0]
  /\ delivered = <<>>
  /\ nevents = 0

Started == {i \in Instances : result[i].op # "none"}

NextPoll ==
  \E i \in Started :
    \/ \E k \in Kinds : HelperEvent(i, k)
    \/ PollLoop(i)
    \/ \E k \in Kinds : PollCheck(i, k)
    \/ \E k \in Kinds : PollUnlink(i, k)
    \/ \E k \in Kinds : PollCall(i, k)
    \/ \E k \in Kinds : PollRemove(i, k)
    \/ Stop(i)
    \/ StopRemovePid(i)
    \/ StopTerminate(i)
    \/ CleanupScripts(i)
    \/ \E k \in Kinds : CleanupMarker(i, k)
    \/ CleanupRmdir(i)
    \/ StopCleanupPkg(i)

SpecPoll == InitPoll /\ [][NextPoll]_vars

(***************************************************************************)
(* Vocabulary of the properties.                                           *)
(***************************************************************************)
Count(x, seq) == Cardinality({j \in 1..Len(seq) : seq[j] = x})

\* The distinct non-empty scripts the rules at positions idxs carry for cat.
ScriptsOf(rules, idxs, cat) == {Get(rules[i].scripts, cat) : i \in Range(idxs)} \ {None, ""}

\* Every key of the selector is in the record with an equal value.
SelectorHolds(device, sel) ==
  \A key \in DOMAIN sel : key \in DOMAIN device /\ device[key] = sel[key]

EventSerials(entries, kind) ==
  {entries[i].serial : i \in {j \in 1..Len(entries) : entries[j].kind = kind}}

\* How often script s was started over all the entries of a handler run.
TotalExecs(entries, s) ==
  Cardinality({p \in (1..Len(entries)) \X (1..Len(config)) :
                 p[2] <= Len(entries[p[1]].execs) /\ entries[p[1]].execs[p[2]] = s})

Increasing(q) == \A j, k \in 1..Len(q) : j < k => q[j] < q[k]

\* The matched rules that carry script s for the category of the call.
Carriers(s) ==
  {i \in Range(ret.matches) : Get(config[i].scripts, call.action_type) = s}

FirstCarrier(s) == CHOOSE i \in Carriers(s) : \A k \in Carriers(s) : i <= k

\* C1: in every poll cycle the serials that get a Connect event are those
\* of the poll that were not known, the serials that get a Disconnect event
\* are the known ones absent from the poll, and no other serial gets one.
C1_EventsAreSetDifferences ==
  [][op' = "poll" =>
       /\ EventSerials(log', "Connect") = SerialsOf(polled') \ known_devices
       /\ EventSerials(log', "Disconnect") = known_devices \ SerialsOf(polled')]_vars

\* C2: a poll that returns the serials already known raises no event, runs
\* no script and leaves the known set as it was, at every such poll.
C2_UnchangedPollIsSilent ==
  [][(op' = "poll" /\ SerialsOf(polled') = known_devices) =>
       (log' = <<>> /\ known_devices' = known_devices)]_vars

C2_Witness ==
  /\ op = "poll"
  /\ config # <<>>
  /\ Len(polled) = 2
  /\ log = <<>>
  /\ known_devices = {"S1", "S2"}

C4_EachDistinctScriptOnce ==
  op = "run" =>
    \A s \in ScriptsOf(config, call.configs, call.action_type) : Count(s, ret.execs) = 1

C6_MatchIffSelectorHolds ==
  op = "match" =>
    \A i \in 1..Len(config) :
      (i \in Range(ret.matches)) <=> SelectorHolds(call.device, config[i].device)

\* C7: against the record built for a vanished serial the package matcher
\* returns only rules whose selector is empty or has the single key serial
\* with that serial.
C7_DisconnectMatchesOnlyBareSelectors ==
  (op = "match" /\ impl = "pkg" /\ call.device \in {DisconnectRecord(s) : s \in Serials}) =>
    \A i \in Range(ret.matches) :
      \/ DOMAIN config[i].device = {}
      \/ DOMAIN config[i].device = {"serial"} /\ config[i].device.serial = call.device.serial

C7_Witness ==
  /\ op = "match"
  /\ impl = "pkg"
  /\ call.device = DisconnectRecord("S1")
  /\ Len(config) = 2
  /\ config[1].device = [model |-> "Pixel"]
  /\ config[2].device = [serial |-> "S1"]
  /\ ret.matches = <<2>>

\* C8: the matcher returns positions of the configuration in increasing
\* order, each at most once, and the executor starts the scripts in the
\* order of the first matched rule that carries each of them.
C8_MatchesPreserveRuleOrder ==
  op \in {"match", "run"} =>
    /\ \A j \in 1..Len(ret.matches) : ret.matches[j] \in 1..Len(config)
    /\ Increasing(ret.matches)
    /\ \A j \in 1..Len(ret.execs) : Carriers(ret.execs[j]) # {}
    /\ \A j, k \in 1..Len(ret.execs) :
         j < k => FirstCarrier(ret.execs[j]) < FirstCarrier(ret.execs[k])

C8_Witness ==
  /\ op = "run"
  /\ ret.matches = <<1, 2>>
  /\ Len(ret.execs) = 2
  /\ ret.execs[1] # ret.execs[2]

\* C9: run_unique_scripts never raises: every script it starts yields a
\* result entry, a success entry for exit status 0, a failure entry that
\* contains the text of stderr for another exit status, an error entry when
\* the subprocess call raises.
C9_ExecutorNeverRaises ==
  op = "run" =>
    /\ ~ret.raised
    /\ Len(ret.results) = Len(ret.execs)
    /\ \A j \in 1..Len(ret.results) :
         LET r == ShellRun(ret.execs[j]) IN
         /\ r.raises => ret.results[j].status = "error"
         /\ (~r.raises /\ r.returncode = 0) => ret.results[j].status \in {"successful", "output"}
         /\ (~r.raises /\ r.returncode # 0) =>
              (ret.results[j].status = "failed" /\ "boom" \in Range(ret.results[j].text))

\* C10: run_unique_scripts returns as many result entries as there are
\* distinct non-empty scripts of the category among the matched rules.
C10_OneResultPerDistinctScript ==
  op = "run" =>
    Len(ret.results) = Cardinality(ScriptsOf(config, call.configs, call.action_type))

\* C11: get_devices returns the empty list and raises nothing whenever the
\* listing command cannot be spawned or exits with a non-zero status.
C11_EnumeratorFailureIsEmptyList ==
  (enum.called /\ (~enum.spawned \/ enum.returncode # 0)) =>
    (~enum.raised /\ enum.devices = <<>>)

\* The lifecycle state of a bridge instance.
LifecycleState(i) ==
  IF bpc[i] = "idle" THEN (IF running[i] THEN "Running" ELSE "Stopped")
  ELSE IF result[i].op = "start" THEN "Starting"
  ELSE "Stopping"

LifecycleSteps ==
  {<<"Stopped", "Starting">>, <<"Starting", "Running">>, <<"Starting", "Stopped">>,
   <<"Running", "Stopping">>, <<"Stopping", "Stopped">>}

\* The reasons for which start reports failure although the bridge was
\* stopped.
FailureReasons == {"already_running", "not_installed", "error_starting"}

\* C12 as stated: a start that finds the PID file naming any live process
\* returns failure at once and changes neither the PID file nor the live
\* processes.
C12_LivePidRefusesStart ==
  [][\A i \in Instances :
       (StartCheck(i) /\ ~running[i] /\ pid_file \in helpers \cup others) =>
         /\ result'[i].ret = "False"
         /\ bpc'[i] = "idle"
         /\ UNCHANGED <<pid_file, helpers, others, nspawn>>]_vars

\* C12 amended: a start that finds the PID file naming a live helper
\* (sleepwatcher) process returns failure at once, spawns nothing and
\* leaves the PID file and that helper untouched.
C12_LiveHelperPidRefusesStart ==
  [][\A i \in Instances :
       (StartCheck(i) /\ ~running[i] /\ pid_file \in helpers) =>
         /\ result'[i] = StartResult("False", "already_running")
         /\ bpc'[i] = "idle"
         /\ UNCHANGED <<pid_file, helpers, others, nspawn, process>>]_vars

C12_Witness ==
  \E i \in Instances :
    /\ result[i] = StartResult("False", "already_running")
    /\ ~running[i]
    /\ bpc[i] = "idle"
    /\ pid_file \in helpers

\* C13: a start that finds the PID file naming a process that is not alive
\* removes the file, does not report "already running" and goes on to
\* spawn the helper.
C13_StalePidFileIsRemoved ==
  [][\A i \in Instances :
       (/\ StartCheck(i)
        /\ ~running[i]
        /\ pid_file \notin {Absent, Garbage}
        /\ pid_file \notin helpers \cup others) =>
         /\ pid_file' = Absent
         /\ result'[i].msg # "already_running"
         /\ bpc'[i] = "spawn"]_vars

\* C14: when the calls of start and stop do not overlap, at most one helper
\* process is alive whenever no call is in progress.
C14_AtMostOneHelper ==
  (\A i \in Instances : bpc[i] = "idle") => Cardinality(helpers) <= 1

\* C15: the liveness check is the only guard of start: a start that finds
\* no PID file goes on to spawn wherever another instance is in its own
\* start, and an instance that writes the PID file leaves it naming its own
\* helper and no other.
C15_CheckThenActLastWriterWins ==
  [][\A i \in Instances :
       /\ (StartCheck(i) /\ ~running[i] /\ pid_file = Absent) => bpc'[i] = "spawn"
       /\ (StartWrite(i) /\ writers' # writers) =>
            /\ pid_file' = process[i]
            /\ \A j \in Instances \ {i} : pid_file' # process[j]]_vars

\* Both instances passed the check before either wrote the PID file: both
\* have spawned a helper, both report success, the file names the helper of
\* the later writer.
C15_Witness ==
  \E i \in Instances, j \in Instances :
    /\ i # j
    /\ writers = <<i, j>>
    /\ running[i] /\ running[j]
    /\ result[i] = StartResult("True", "")
    /\ result[j] = StartResult("True", "")
    /\ {process[i], process[j]} \subseteq helpers
    /\ process[i] # process[j]
    /\ pid_file = process[j]

\* C16: a start that reports failure for a live PID, a missing helper
\* executable or a failed spawn has returned with the bridge stopped, has
\* started no event-poll loop and has written no PID file; a call that
\* writes the PID file is one that succeeds; and an instance moves only
\* along Stopped, Starting, Running, Stopping, Stopped.
C16_FailedStartLeavesStopped ==
  [][\A i \in Instances :
       /\ (/\ result'[i] # result[i]
           /\ result'[i].op = "start"
           /\ result'[i].ret = "False"
           /\ result'[i].msg \in FailureReasons) =>
            /\ bpc'[i] = "idle"
            /\ ~running'[i]
            /\ tpc'[i] = tpc[i]
            /\ pid_file' \in {pid_file, Absent}
            /\ writers' = writers
       /\ (StartWrite(i) /\ writers' # writers) => result'[i].ret = "True"
       /\ LifecycleState(i)' # LifecycleState(i) =>
            <<LifecycleState(i), LifecycleState(i)'>> \in LifecycleSteps]_vars

\* Instance 1 has failed to spawn the helper and instance 2 has found a
\* live PID; both are stopped.
C16_Witness ==
  /\ result[1] = StartResult("False", "error_starting")
  /\ result[2] = StartResult("False", "already_running")
  /\ \A i \in Instances : LifecycleState(i) = "Stopped"

\* C18: stop on a stopped bridge changes nothing: neither the PID file nor
\* any process nor any file of the bridge, and it raises nothing.
C18_StopOnStoppedIsNoop ==
  [][\A i \in Instances :
       (Stop(i) /\ ~running[i]) =>
         /\ UNCHANGED <<pid_file, helpers, others, running, process, scripts,
                        temp_dir, bpc, writers, nspawn, pollVars>>
         /\ result'[i] = [op |-> "stop", ret |-> StopRet(impl), msg |-> ""]]_vars

\* Instance 1 was never started and has been stopped while instance 2 runs.
C18_Witness ==
  /\ result[1] = [op |-> "stop", ret |-> StopRet(impl), msg |-> ""]
  /\ nspawn = 1
  /\ running[2]
  /\ pid_file = process[2]
  /\ process[2] \in helpers

\* C17: once stop has returned on a bridge that was running, the flag is
\* clear, the PID file is gone, the helper is no longer alive and the
\* generated scripts and their directory are deleted.
C17_StopReleasesEverything ==
  \A i \in Started :
    (result[i].op = "stop" /\ bpc[i] = "idle") =>
      /\ ~running[i]
      /\ pid_file = Absent
      /\ process[i] = None
      /\ helpers = {}
      /\ ~scripts[i]
      /\ ~temp_dir[Dir(impl, i)]

\* C19: a callback that raises does not end the event-poll loop: after
\* every callback, raising or not, the thread is at its next statement.
C19_CallbackNeverEndsLoop ==
  [][\A i \in Instances : \A k \in Kinds :
       PollCall(i, k) => tpc'[i] \in {"rm_" \o k, NextCheck(k)}]_vars

\* A callback has raised and a later event has been delivered.
C19_Witness ==
  /\ Len(delivered) >= 2
  /\ delivered[1].raised
  /\ delivered[2].event > delivered[1].event

\* C20: when a callback starts, the marker file that triggered it has been
\* deleted.
C20_MarkerDeletedBeforeCallback ==
  \A n \in 1..Len(delivered) : delivered[n].marker # delivered[n].event

\* C25: a list returned by get_devices holds at most one record per serial,
\* whatever the listing command printed.
C25_OneRecordPerSerial ==
  (enum.called /\ ~enum.raised) =>
    \A i, j \in 1..Len(enum.devices) :
      i # j => enum.devices[i].serial # enum.devices[j].serial

\* C29: in a poll cycle every Disconnect event is matched against the record
\* that holds the key serial and nothing else, and every Connect event is
\* matched against a full record of the current enumeration.
C29_RecordsMatchedAgainst ==
  op = "poll" =>
    \A n \in 1..Len(log) :
      /\ log[n].kind = "Disconnect" =>
           /\ DOMAIN log[n].device = {"serial"}
           /\ log[n].device.serial = log[n].serial
           /\ log[n].matched = get_matching_configs(impl, [serial |-> log[n].serial], config)
      /\ log[n].kind = "Connect" =>
           \E i \in 1..Len(polled) :
             /\ log[n].device = polled[i]
             /\ log[n].serial = polled[i].serial
             /\ log[n].matched = get_matching_configs(impl, polled[i], config)

\* A cycle that raises a Connect for a record with a model attribute and a
\* Disconnect for a device that was enumerated with one.
C29_Witness ==
  /\ op = "poll"
  /\ config # <<>>
  /\ \E n \in 1..Len(log) :
       log[n].kind = "Connect" /\ "model" \in DOMAIN log[n].device /\ log[n].matched # <<>>
  /\ \E n \in 1..Len(log) : log[n].kind = "Disconnect" /\ log[n].serial = "S2"

\* C21: a Sleep or Wake event is handled for exactly the devices enumerated
\* at the moment of the event, one after the other, whatever known_devices
\* holds: an enumerated device that is not known is handled, a known device
\* that is not enumerated is not.
C21_SleepWakeActsOnFreshList ==
  op \in {"sleep", "wake"} =>
    /\ Len(log) = Len(polled)
    /\ \A n \in 1..Len(log) :
         /\ log[n].device = polled[n]
         /\ log[n].kind = (IF op = "sleep" THEN "Sleep" ELSE "Wake")

(***************************************************************************)
(* The poll cycle statement by statement, next to the sleep/wake callback  *)
(* that the bridge's event-poll thread runs at the same time, and next to  *)
(* get_status.  cyc.known remembers known_devices as the cycle found it.   *)
(***************************************************************************)
MaxDevices == 1

\* The configurations of this specification: one rule each.
CycleConfigs == {<<r>> : r \in LoopRules}

CycleLists == {q \in DeviceLists : Len(q) <= MaxDevices}

InitCycle ==
  /\ EnumIdle
  /\ CycleIdle
  /\ HttpIdle
  /\ ServiceIdle
  /\ LoopIdle
  /\ BridgeIdle
  /\ PollIdle
  /\ impl \in Impls
  /\ config \in CycleConfigs
  /\ known_devices = {}
  /\ alive = TRUE
  /\ op = "init"
  /\ polled = <<>>
  /\ log = <<>>
  /\ call = NoCall
  /\ ret = NoRet

\* A variant that records each device as known as soon as its event is
\* handled.
KnownAfterEventPatched(known, serial) == known \cup {serial}

\* The bodies of the two loops of check_devices / Monitor.run hold no
\* assignment to known_devices.
KnownAfterEvent(known, serial) == known

\* A variant in which the callback stores what it enumerated.
KnownAfterHandlerStored(known, devices) == SerialsOf(devices)

\* _handle_sleep / _handle_wake hold no reference to known_devices.
KnownAfterHandler(known, devices) == known

\* devices = ADBStatus.get_devices()
\* current_devices = {device['serial'] for device in devices}
CycleBegin ==
  /\ cyc.pc = "idle"
  /\ \E devices \in CycleLists :
       cyc' = [pc |-> "connect", devices |-> devices, i |-> 1, gone |-> <<>>,
               events |-> <<>>, known |-> known_devices]
  /\ UNCHANGED <<known_devices, hnd, status>>

\* One iteration of 'for device in devices'.
CycleConnect ==
  /\ cyc.pc = "connect"
  /\ cyc.i <= Len(cyc.devices)
  /\ LET device == cyc.devices[cyc.i]
         events == IF IsNewDevice(device.serial, known_devices)
                     THEN Append(cyc.events, Event(impl, config, "Connect", device, "connect"))
                     ELSE cyc.events
     IN /\ cyc' = [cyc EXCEPT !.i = @ + 1, !.events = events,
                              !.pc = IF Raised(events) THEN "dead" ELSE @]
        /\ known_devices' = KnownAfterEvent(known_devices, device.serial)
  /\ UNCHANGED <<hnd, status>>

\* The set difference of 'for serial in self.known_devices - current_devices',
\* evaluated when the second loop starts.
CycleDifference ==
  /\ cyc.pc = "connect"
  /\ cyc.i > Len(cyc.devices)
  /\ \E gone \in Orderings(known_devices \ SerialsOf(cyc.devices)) :
       cyc' = [cyc EXCEPT !.pc = "disconnect", !.gone = gone, !.i = 1]
  /\ UNCHANGED <<known_devices, hnd, status>>

\* One iteration of the second loop.
CycleDisconnect ==
  /\ cyc.pc = "disconnect"
  /\ cyc.i <= Len(cyc.gone)
  /\ LET serial == cyc.gone[cyc.i]
         events == Append(cyc.events,
                     Event(impl, config, "Disconnect", DisconnectRecord(serial), "disconnect"))
     IN /\ cyc' = [cyc EXCEPT !.i = @ + 1, !.events = events,
                              !.pc = IF Raised(events) THEN "dead" ELSE @]
        /\ known_devices' = KnownAfterEvent(known_devices, serial)
  /\ UNCHANGED <<hnd, status>>

\* self.known_devices = current_devices, the last statement of the cycle.
CycleAssign ==
  /\ cyc.pc = "disconnect"
  /\ cyc.i > Len(cyc.gone)
  /\ known_devices' = NextKnown(known_devices, SerialsOf(cyc.devices))
  /\ cyc' = NoCycle
  /\ UNCHANGED <<hnd, status>>

\* The callback begins: devices = ADBStatus.get_devices().
HandlerBegin(kind) ==
  /\ cyc.pc # "dead"
  /\ hnd.pc = "idle"
  /\ \E devices \in CycleLists :
       hnd' = [pc |-> "loop", kind |-> kind, devices |-> devices, i |-> 1,
               events |-> <<>>]
  /\ UNCHANGED <<known_devices, cyc, status>>

\* One iteration of 'for device in devices' of the callback; an exception
\* of the executor ends the callback.
HandlerStep ==
  /\ cyc.pc # "dead"
  /\ hnd.pc = "loop"
  /\ hnd.i <= Len(hnd.devices)
  /\ LET device == hnd.devices[hnd.i]
         e == Event(impl, config, IF hnd.kind = "sleep" THEN "Sleep" ELSE "Wake",
                    device, hnd.kind)
     IN hnd' = IF e.raised THEN NoHandler
               ELSE [hnd EXCEPT !.i = @ + 1, !.events = Append(@, e)]
  /\ known_devices' = KnownAfterHandler(known_devices, hnd.devices)
  /\ UNCHANGED <<cyc, status>>

HandlerEnd ==
  /\ cyc.pc # "dead"
  /\ hnd.pc = "loop"
  /\ hnd.i > Len(hnd.devices)
  /\ hnd' = NoHandler
  /\ UNCHANGED <<known_devices, cyc, status>>

\* ADBStatusMonitor.get_status: a copy of known_devices and a fresh
\* enumeration.
GetStatus ==
  /\ impl = "pkg"
  /\ cyc.pc # "dead"
  /\ ~status.called
  /\ \E devices \in CycleLists :
       status' = [called |-> TRUE, known_devices |-> known_devices, devices |-> devices]
  /\ UNCHANGED <<known_devices, cyc, hnd>>

NextCycle ==
  /\ \/ CycleBegin
     \/ CycleConnect
     \/ CycleDifference
     \/ CycleDisconnect
     \/ CycleAssign
     \/ \E kind \in Kinds : HandlerBegin(kind)
     \/ HandlerStep
     \/ HandlerEnd
     \/ GetStatus
  /\ UNCHANGED <<impl, config, alive, op, polled, log, call, ret, enumVars, loopVars, httpVars,
                 serviceVars, bridgeVars, pollVars>>

SpecCycle == InitCycle /\ [][NextCycle]_vars

\* The events a whole cycle raises when nothing runs next to it, computed from
\* the known set the cycle found and the devices it enumerated.
CycleEvents(known, devices, gone) ==
  DisconnectFrom(impl, config, gone, 1, ConnectFrom(impl, config, known, devices, 1, <<>>))

\* The cycle has handled its last event, or has been ended by an exception.
CycleDone ==
  \/ cyc.pc = "dead"
  \/ cyc.pc = "disconnect" /\ cyc.i > Len(cyc.gone)

\* C27: known_devices changes in one step only, the assignment that ends a
\* poll cycle, which replaces it by the serials of the cycle's enumeration;
\* while the events of the cycle are matched and executed it still holds the
\* set of the previous cycle, and no step of the callback and no get_status
\* changes it.
C27_KnownDevicesAssignedOnce ==
  [][/\ CycleAssign => known_devices' = SerialsOf(cyc.devices)
     /\ ~CycleAssign => known_devices' = known_devices
     /\ cyc'.pc \in {"connect", "disconnect"} => known_devices' = cyc'.known]_vars

\* A cycle that has raised a Connect for a device and still holds the
\* previous set, after get_status has run and while a callback is running.
C27_Witness ==
  /\ cyc.pc = "disconnect"
  /\ \E n \in 1..Len(cyc.events) :
       cyc.events[n].kind = "Connect" /\ cyc.events[n].serial \notin known_devices
  /\ known_devices # {}
  /\ status.called
  /\ hnd.pc = "loop"

\* C28: whatever steps of the sleep/wake callback run between the steps of
\* a poll cycle, the callback leaves known_devices alone and the cycle
\* raises the events it would raise on its own.
C28_CallbackDoesNotDisturbCycle ==
  [][/\ CycleDone' =>
          /\ Range(cyc'.gone) = cyc'.known \ SerialsOf(cyc'.devices)
          /\ cyc'.events = CycleEvents(cyc'.known, cyc'.devices, cyc'.gone)
     /\ (HandlerStep \/ HandlerEnd \/ \E kind \in Kinds : HandlerBegin(kind)) =>
          known_devices' = known_devices]_vars

\* Both threads in the middle of their loops: the cycle has raised its
\* events while the callback has handled a device that is not known.
C28_Witness ==
  /\ CycleDone
  /\ Len(cyc.events) = 2
  /\ hnd.pc = "loop"
  /\ Len(hnd.events) = 1
  /\ hnd.events[1].serial \notin known_devices

\* The PID file still holds what instance i wrote into it.
OwnPidFile(i) ==
  /\ writers # <<>>
  /\ writers[Len(writers)] = i
  /\ pid_file \notin {Absent, Garbage}

MaxSegments == 3

Segments == {"", "serial", "model", "S1", "s1", "PIXEL"}

Paths == SeqsUpTo(Segments, MaxSegments) \ {<<>>}

\* str.lower() on the strings of the model.
Lower(s) ==
  CASE s = "S1" -> "s1"
    [] s = "S2" -> "s2"
    [] s = "Pixel" -> "pixel"
    [] s = "PIXEL" -> "pixel"
    [] OTHER -> s

\* d.get(field, '')
GetOr(d, field, default) == IF field \in DOMAIN d THEN d[field] ELSE default

\* self.path == '/'
IsRoot(path) == path = <<"">>

\* parts = [p for p in self.path[1:].split('/') if p]
Parts(path) == SelectSeq(path, LAMBDA p : p # "")

\* [d for d in devices if str(d.get(field, '')).lower() == value.lower()]
Filter(devices, field, value) ==
  SelectSeq(devices, LAMBDA d : Lower(GetOr(d, field, "")) = Lower(value))

ListBody(devices) == [NoBody EXCEPT !.kind = "list", !.devices = devices]
ObjectBody(devices) ==
  [NoBody EXCEPT !.kind = "object", !.devices = devices, !.count = Len(devices)]
ErrorBody == [NoBody EXCEPT !.kind = "error", !.error = "Not found"]

\* adb-status-httpd.py: ADBDevicesHandler.do_GET.  The name contents is
\* bound in the first branch and in the second one for two parts only; for
\* every other path the test 'contents is None' raises UnboundLocalError.
DoGetLegacy(path, devices) ==
  IF IsRoot(path)
    THEN [raised |-> FALSE, code |-> 200, body |-> ListBody(devices)]
  ELSE IF Len(Parts(path)) = 2
    THEN [raised |-> FALSE, code |-> 200,
          body |-> ListBody(Filter(devices, Parts(path)[1], Parts(path)[2]))]
  ELSE [raised |-> TRUE, code |-> 0, body |-> NoBody]

\* adbstatus/server.py: ADBStatusRequestHandler.do_GET.
DoGetPkg(path, devices) ==
  IF IsRoot(path)
    THEN [raised |-> FALSE, code |-> 200, body |-> ObjectBody(devices)]
    ELSE [raised |-> FALSE, code |-> 404, body |-> ErrorBody]

do_GET(im, path, devices) ==
  IF im = "pkg" THEN DoGetPkg(path, devices) ELSE DoGetLegacy(path, devices)

InitHttp ==
  /\ EnumIdle
  /\ CycleIdle
  /\ HttpIdle
  /\ ServiceIdle
  /\ LoopIdle
  /\ BridgeIdle
  /\ PollIdle
  /\ MonitorIdle
  /\ impl \in Impls

\* One GET request answered by the handler.
DoGet ==
  /\ http.pc = "idle"
  /\ \E path \in Paths, devices \in DeviceLists :
       LET r == do_GET(impl, path, devices) IN
       /\ polled' = devices
       /\ http' = [pc |-> "done", path |-> path, raised |-> r.raised, code |-> r.code,
                   body |-> r.body]
  /\ UNCHANGED <<impl, config, known_devices, alive, op, log, call, ret, enumVars, loopVars,
                 cycleVars, serviceVars, bridgeVars, pollVars>>

NextHttp == DoGet

SpecHttp == InitHttp /\ [][NextHttp]_vars

\* C26: every GET is answered: '/' with the list of all devices, a path of
\* two parts with the devices whose field equals the value without regard
\* to case, every other path with status 404 and the error object.
C26_EveryGetAnswered ==
  http.pc = "done" =>
    /\ ~http.raised
    /\ IsRoot(http.path) =>
         (http.code = 200 /\ http.body \in {ListBody(polled), ObjectBody(polled)})
    /\ (~IsRoot(http.path) /\ Len(Parts(http.path)) = 2) =>
         /\ http.code = 200
         /\ http.body = ListBody(Filter(polled, Parts(http.path)[1], Parts(http.path)[2]))
    /\ (~IsRoot(http.path) /\ Len(Parts(http.path)) # 2) =>
         (http.code = 404 /\ http.body = ErrorBody)

(***************************************************************************)
(* The monitor process: ADBStatusMonitor._run_service (monitor.py) and,    *)
(* for the legacy program, Monitor() followed by Monitor.run inside main   *)
(* (adb_monitor.py).  The process owns bridge instance 1.  service.pc is   *)
(* "start" while the bridge is being started, "loop" inside the loop,      *)
(* "stopping" from the moment the loop is left until the bridge has been   *)
(* stopped (the finally clause of _run_service; the atexit handler of the  *)
(* legacy bridge), then "returned"; "killed" once a signal has ended the   *)
(* process.  service.bridge records what start returned.                   *)
(***************************************************************************)
MaxPolls == 2

\* What the listing command prints in this specification.
ServiceOutputs ==
  {<<HeaderLine>>,
   <<HeaderLine, <<<<"S1">>, <<"device">>>>, <<>>>>,
   <<HeaderLine, <<<<"S2">>, <<"device">>, <<"model", "Pixel">>>>, <<>>>>}

InitService ==
  /\ EnumIdle
  /\ CycleIdle
  /\ HttpIdle
  /\ LoopIdle
  /\ PollIdle
  /\ impl \in Impls
  /\ config \in CycleConfigs
  /\ known_devices = {}
  /\ alive = TRUE
  /\ op = "init"
  /\ polled = <<>>
  /\ log = <<>>
  /\ call = NoCall
  /\ ret = NoRet
  /\ pid_file \in {Absent, Garbage, ExternalPid, DeadPid}
  /\ \E external \in {"none", "helper", "other"} :
       /\ helpers = IF external = "helper" THEN {ExternalPid} ELSE {}
       /\ others = IF external = "other" THEN {ExternalPid} ELSE {}
  /\ running = [i \in Instances |-> FALSE]
  /\ process = [i \in Instances |-> None]
  /\ scripts = [i \in Instances |-> FALSE]
  /\ temp_dir = [i \in Instances |-> impl = "pkg" /\ i = 1]
  /\ bpc = [i \in Instances |-> "idle"]
  /\ result = [i \in Instances |-> NoResult]
  /\ writers = <<>>
  /\ nspawn = 0
  /\ service = [NoService EXCEPT !.pc = "start"]

\* The process is alive.
ServiceAlive == service.pc \in {"start", "loop", "stopping"}

\* self._sleep_monitor.start(), statement by statement.
ServiceStartBridge ==
  /\ service.pc = "start"
  /\ \/ result[1].op = "none" /\ StartCheck(1)
     \/ StartSpawn(1)
     \/ StartWrite(1)
     \/ result[1].op = "start" /\ (CleanupScripts(1) \/ CleanupRmdir(1))

\* A variant in which the loop is entered after a successful start only.
AfterStartStrict(r) == IF r = "True" THEN "loop" ELSE "returned"

\* Where _run_service goes once start has returned r: a False result is
\* logged and nothing else.
AfterStart(r) == IF r = "raised" THEN "returned" ELSE "loop"

\* start has returned: a warning is logged when it returned False and the
\* loop is entered in either case (self.running = True).  An exception of
\* start reaches the outer except clause of _run_service, which returns
\* False.
ServiceEnter ==
  /\ service.pc = "start"
  /\ bpc[1] = "idle"
  /\ result[1].op = "start"
  /\ service' =
       IF AfterStart(result[1].ret) = "returned"
         THEN [service EXCEPT !.pc = "returned", !.cause = "exception", !.ret = "False",
                              !.bridge = IF result[1].ret = "False" THEN "failed" ELSE "raised"]
         ELSE [service EXCEPT !.pc = "loop",
                              !.bridge = IF result[1].ret = "True" THEN "ok" ELSE "failed"]
  /\ UNCHANGED <<impl, monitorVars, enumVars, loopVars, cycleVars, httpVars, bridgeVars, pollVars>>

\* One pass of the loop: check_devices and the sleep that follows it.  An
\* exception of the enumerator or of the executor leaves the loop.
ServicePoll ==
  /\ service.pc = "loop"
  /\ service.polls < MaxPolls
  /\ \E spawned \in BOOLEAN, returncode \in {0, 1}, stdout \in ServiceOutputs :
       LET r == get_devices(impl, spawned, returncode, stdout)
           current_devices == SerialsOf(r.devices)
       IN
       \E gone \in Orderings(known_devices \ current_devices) :
         /\ polled' = r.devices
         /\ log' = IF r.raised THEN <<>>
                   ELSE DisconnectFrom(impl, config, gone, 1,
                          ConnectFrom(impl, config, known_devices, r.devices, 1, <<>>))
         /\ known_devices' = IF r.raised \/ Raised(log') THEN known_devices
                              ELSE NextKnown(known_devices, current_devices)
         /\ op' = IF r.raised THEN "enumerator_raised"
                  ELSE IF spawned /\ returncode = 0 THEN "poll" ELSE "enumerator_failed"
         /\ service' =
              IF r.raised \/ Raised(log')
                THEN [service EXCEPT !.pc = "stopping", !.cause = "exception", !.polls = @ + 1]
                ELSE [service EXCEPT !.polls = @ + 1]
  /\ UNCHANGED <<impl, config, alive, call, ret, enumVars, loopVars, cycleVars, httpVars, bridgeVars,
                 pollVars>>

\* KeyboardInterrupt inside the loop: except KeyboardInterrupt.
ServiceInterrupt ==
  /\ service.pc = "loop"
  /\ service' = [service EXCEPT !.pc = "stopping", !.cause = "interrupt"]
  /\ UNCHANGED <<impl, monitorVars, enumVars, loopVars, cycleVars, httpVars, bridgeVars, pollVars>>

\* ADBStatusMonitor.stop called in the process that runs the loop:
\* self.running = False ends the loop at its next test.
ServiceStop ==
  /\ impl = "pkg"
  /\ service.pc = "loop"
  /\ service' = [service EXCEPT !.pc = "stopping", !.cause = "stop"]
  /\ UNCHANGED <<impl, monitorVars, enumVars, loopVars, cycleVars, httpVars, bridgeVars, pollVars>>

\* The stop command: stop_other_instances sends SIGTERM to the process that
\* runs the loop (and kills it after two seconds).  The process installs
\* no handler for the signal, which ends it at once.
ServiceTerminate ==
  /\ ServiceAlive
  /\ service' = [service EXCEPT !.pc = "killed", !.cause = "sigterm"]
  /\ UNCHANGED <<impl, monitorVars, enumVars, loopVars, cycleVars, httpVars, bridgeVars, pollVars>>

\* self._sleep_monitor.stop(), statement by statement: in the finally
\* clause of _run_service; for the legacy program in the atexit handler
\* that a successful start has registered.
ServiceStopBridge ==
  /\ service.pc = "stopping"
  /\ impl = "legacy" => service.bridge = "ok"
  /\ \/ result[1].op # "stop" /\ Stop(1)
     \/ StopRemovePid(1)
     \/ StopTerminate(1)
     \/ CleanupScripts(1)
     \/ CleanupRmdir(1)
     \/ StopCleanupPkg(1)

\* The bridge has been stopped (or, in the legacy program, no handler was
\* registered): self.running = False; return.
ServiceReturn ==
  /\ service.pc = "stopping"
  /\ \/ bpc[1] = "idle" /\ result[1].op = "stop"
     \/ impl = "legacy" /\ service.bridge # "ok"
  /\ service' = [service EXCEPT !.pc = "returned",
                                !.ret = IF service.cause = "exception" THEN "False" ELSE "True"]
  /\ UNCHANGED <<impl, monitorVars, enumVars, loopVars, cycleVars, httpVars, bridgeVars, pollVars>>

NextService ==
  \/ ServiceStartBridge
  \/ ServiceEnter
  \/ ServicePoll
  \/ ServiceInterrupt
  \/ ServiceStop
  \/ ServiceTerminate
  \/ ServiceStopBridge
  \/ ServiceReturn

SpecService == InitService /\ [][NextService]_vars

\* The helpers that bridges of the model have spawned and that are alive.
SpawnedHelpers == helpers \cap Range(HelperPids)

\* C22: once the process has left the loop on an interrupt or on a stop
\* request and is gone, a bridge that had been started has been stopped: no
\* helper it spawned is alive and the PID file it wrote is not there.
C22_CleanShutdown ==
  (/\ service.pc \in {"returned", "killed"}
   /\ service.bridge = "ok"
   /\ service.cause \in {"interrupt", "stop", "sigterm"}) =>
    /\ SpawnedHelpers = {}
    /\ ~OwnPidFile(1)

\* C23: a start of the bridge that returns False for one of its reasons
\* does not keep the loop from starting; the polls that follow raise the
\* Connect or Disconnect event of the first changed serial as ever, and the
\* event-poll thread, which alone delivers Sleep and Wake, does not exist.
C23_BridgeFailureNotFatal ==
  [][/\ (ServiceEnter /\ result[1].ret = "False" /\ result[1].msg \in FailureReasons) =>
          (service'.pc = "loop" /\ service'.bridge = "failed")
     /\ (service.bridge = "failed" /\ ServicePoll /\ op' = "poll") =>
          /\ SerialsOf(polled') \ known_devices # {} =>
               (log' # <<>> /\ log'[1].kind = "Connect"
                  /\ log'[1].serial \in SerialsOf(polled') \ known_devices)
          /\ (SerialsOf(polled') \subseteq known_devices
                /\ known_devices \ SerialsOf(polled') # {}) =>
               (log' # <<>> /\ log'[1].kind = "Disconnect"
                  /\ log'[1].serial \in known_devices \ SerialsOf(polled'))
     /\ service'.bridge = "failed" => (tpc'[1] = "none" /\ ~running'[1])]_vars

\* The loop after a failed start, in its second poll, with a Disconnect.
C23_Witness ==
  /\ service.pc = "loop"
  /\ service.bridge = "failed"
  /\ result[1].msg = "already_running"
  /\ service.polls >= 2
  /\ op = "poll"
  /\ \E n \in 1..Len(log) : log[n].kind = "Disconnect"

\* C24: a poll never ends the loop, whatever the enumerator command and the
\* action scripts do.
C24_PollNeverEndsLoop ==
  [][ServicePoll => service'.pc = "loop"]_vars

\* C31: an instance whose running flag is set has spawned a helper, and the
\* PID file exists and holds the PID of that helper.
C31_RunningHasOwnPidFile ==
  \A i \in Instances :
    running[i] => (process[i] # None /\ pid_file = process[i])

\* C32: a start that finds no live process recorded in the PID file goes on
\* to locate the helper; when the helper is spawned the two scripts have
\* been generated and the helper is alive; the call then returns True with
\* the running flag set.
C32_StartSucceeds ==
  [][\A i \in Instances :
       /\ (StartCheck(i) /\ ~running[i] /\ pid_file \notin helpers \cup others) =>
            (bpc'[i] = "spawn" /\ result'[i].ret = "pending")
       /\ (StartSpawn(i) /\ nspawn' # nspawn) =>
            (scripts'[i] /\ process'[i] \in helpers' /\ bpc'[i] = "write")
       /\ StartWrite(i) => (result'[i] = StartResult("True", "") /\ running'[i])]_vars

\* C34: for every output of a listing command that exits 0 the enumerator
\* returns normally, with one record for each non-blank line after the
\* first, and every record has the keys serial and state.
C34_EveryLineYieldsRecord ==
  (enum.called /\ enum.spawned /\ enum.returncode = 0) =>
    /\ ~enum.raised
    /\ Len(enum.devices) =
         Cardinality({k \in 2..Len(enum.stdout) : enum.stdout[k] # <<>>})
    /\ \A k \in 1..Len(enum.devices) :
         {"serial", "state"} \subseteq DOMAIN enum.devices[k]

\* C37: when a start that got past the liveness check returns False, the
\* running flag of the instance is false and no helper the instance spawned
\* is alive.
C37_FailedStartLeavesNoHelper ==
  [][\A i \in Instances :
       (/\ result'[i] # result[i]
        /\ result'[i].op = "start"
        /\ result'[i].ret = "False"
        /\ result'[i].msg \notin {"monitor_running", "already_running"}) =>
         /\ ~running'[i]
         /\ process'[i] \notin helpers']_vars

\* The statements of one iteration that deal with the sleep marker.
SleepPart == {"check_sleep", "unlink_sleep", "call_sleep", "rm_sleep"}

\* C38: callbacks are invoked one at a time, each by a step of the one
\* event-poll thread of its instance at the call statement; an iteration
\* begins with the sleep marker, and the thread reaches the test of the wake
\* marker only from the end of the sleep part, so the sleep callback of an
\* iteration has returned before its wake callback is invoked.
C38_CallbacksOneAtATime ==
  [][/\ delivered' # delivered =>
          /\ Len(delivered') = Len(delivered) + 1
          /\ \E i \in Instances :
               /\ tpc[i] = "call_" \o delivered'[Len(delivered')].kind
               /\ tpc'[i] # tpc[i]
     /\ \A i \in Instances :
          /\ (PollLoop(i) /\ running[i]) => tpc'[i] = "check_sleep"
          /\ (tpc[i] \in SleepPart /\ tpc'[i] # tpc[i]) =>
               tpc'[i] \in SleepPart \cup {"check_wake", "dead"}
          /\ (tpc'[i] = "check_wake" /\ tpc'[i] # tpc[i]) =>
               tpc[i] \in (IF impl = "pkg" THEN {"check_sleep", "call_sleep"}
                           ELSE {"check_sleep", "rm_sleep"})]_vars

\* Both markers were present in one iteration, the wake marker written
\* first: the sleep callback was invoked first and the wake callback next.
C38_Witness ==
  /\ Len(delivered) = 2
  /\ delivered[1].kind = "sleep"
  /\ delivered[2].kind = "wake"
  /\ delivered[2].event < delivered[1].event

(***************************************************************************)
(* The event-poll loop under fair scheduling.  The event-poll thread is a  *)
(* thread of its own (threading.Thread(target=self._check_for_events)):    *)
(* the interpreter keeps scheduling it, time.sleep(0.5) returns and a      *)
(* callback that was invoked returns or raises, so a thread that has a     *)
(* next statement eventually executes it.  Nothing obliges the helper to   *)
(* report an event or a caller to call stop.                               *)
(***************************************************************************)
ThreadStep(i) ==
  \/ PollLoop(i)
  \/ \E k \in Kinds : PollCheck(i, k)
  \/ \E k \in Kinds : PollUnlink(i, k)
  \/ \E k \in Kinds : PollCall(i, k)
  \/ \E k \in Kinds : PollRemove(i, k)

SpecPollFair == SpecPoll /\ \A i \in Instances : WF_vars(ThreadStep(i))

\* The callback of kind k has been invoked after the write numbered e of the
\* marker of kind k: it was triggered by that write or a later one, or that
\* write was on disk when it was invoked.
InvokedAfter(k, e) ==
  \E n \in 1..Len(delivered) :
    /\ delivered[n].kind = k
    /\ (delivered[n].event >= e \/ delivered[n].marker >= e)

\* C39: whenever the helper of a running bridge has written a marker, the
\* callback of that kind is eventually invoked after the write, unless the
\* bridge is stopped first.
C39_NoEventLost ==
  \A i \in Instances : \A k \in Kinds : \A e \in 1..MaxEvents :
    (running[i] /\ markers[Dir(impl, i)][k] = e) ~> (~running[i] \/ InvokedAfter(k, e))

\* The statements of the event-poll loop in the order of one iteration.
PollOrder ==
  <<"loop", "check_sleep", "unlink_sleep", "call_sleep", "rm_sleep",
    "check_wake", "unlink_wake", "call_wake", "rm_wake">>

Rank(pc) == CHOOSE n \in 1..Len(PollOrder) : PollOrder[n] = pc

\* The thread has left _check_for_events, or was never started.
Exited(i) == tpc[i] \in {"none", "dead"}

\* C40: while the running flag is clear the event-poll thread only moves
\* forward through the iteration in flight and leaves the loop at its top;
\* a thread that has left the loop stays out and, once every thread is out,
\* no callback is invoked any more, whatever the helper writes; and a thread
\* whose flag was cleared eventually leaves the loop.
C40_StopEndsLoop ==
  /\ [][\A i \in Instances :
          /\ (~running[i] /\ ~Exited(i) /\ tpc'[i] # tpc[i]) =>
               IF tpc[i] = "loop" THEN tpc'[i] = "none"
               ELSE tpc'[i] \in {"loop", "dead"} \/ Rank(tpc'[i]) > Rank(tpc[i])
          /\ Exited(i) => tpc'[i] = tpc[i]]_vars
  /\ [][(\A i \in Instances : Exited(i)) => delivered' = delivered]_vars
  /\ \A i \in Instances : ~running[i] ~> Exited(i)

\* stop has cleared the flag and has not yet terminated the helper; the
\* thread delivered an event and has left the loop; the helper has written
\* a marker that no one will handle.
C40_Witness ==
  /\ ~running[1]
  /\ tpc[1] = "none"
  /\ process[1] \in helpers
  /\ Len(delivered) >= 1
  /\ \E k \in Kinds : markers[Dir(impl, 1)][k] > delivered[Len(delivered)].event

\* The position of a record in the enumeration of the last poll.
PolledAt(device) == CHOOSE p \in 1..Len(polled) : polled[p] = device

\* C35: the events of one poll cycle are handled one after the other, each
\* with its scripts run and its result lines written before the next one:
\* first the Connect events, in the order of the enumeration, then the
\* Disconnect events; only the last event handled can be one that raised.
C35_ConnectsBeforeDisconnects ==
  op = "poll" =>
    \A n \in 1..Len(log) :
      /\ log[n].kind \in {"Connect", "Disconnect"}
      /\ log[n].execs = run_unique_scripts(impl, config, log[n].matched,
                          IF log[n].kind = "Connect" THEN "connect" ELSE "disconnect").execs
      /\ ~log[n].raised => Len(log[n].results) = Len(log[n].execs)
      /\ log[n].raised => n = Len(log)
      /\ \A m \in 1..(n - 1) :
           /\ log[m].kind = "Disconnect" => log[n].kind = "Disconnect"
           /\ (log[m].kind = "Connect" /\ log[n].kind = "Connect") =>
                PolledAt(log[m].device) < PolledAt(log[n].device)

\* A cycle with two Connect events and a Disconnect event, each of which
\* ran a script.
C35_Witness ==
  /\ op = "poll"
  /\ Len(log) = 3
  /\ log[1].kind = "Connect"
  /\ log[2].kind = "Connect"
  /\ log[3].kind = "Disconnect"
  /\ \A n \in 1..3 : log[n].execs # <<>> /\ ~log[n].raised

\* The serials of the events of the given kind in a log.
SerialsIn(entries, kind) ==
  {entries[n].serial : n \in {m \in 1..Len(entries) : entries[m].kind = kind}}

\* C36: a poll in which the listing command fails while devices are known
\* raises a Disconnect event for every known serial, no other event, and
\* leaves known_devices empty; a successful poll that starts with no known
\* device raises a Connect event for every enumerated device.
C36_FailedListingDisconnectsAll ==
  [][/\ (/\ ServicePoll
         /\ op' \in {"enumerator_failed", "enumerator_raised"}
         /\ known_devices # {}) =>
          /\ SerialsIn(log', "Disconnect") = known_devices
          /\ SerialsIn(log', "Connect") = {}
          /\ known_devices' = {}
     /\ (ServicePoll /\ op' = "poll" /\ known_devices = {}) =>
          /\ SerialsIn(log', "Connect") = SerialsOf(polled')
          /\ known_devices' = SerialsOf(polled')]_vars

(***************************************************************************)
(* The reconciliation loop of _run_service, 'while self.running:           *)
(* self.check_devices(); time.sleep(check_interval)', with check_devices   *)
(* taken statement by statement, next to a caller of stop on another       *)
(* thread.  The legacy loop is 'while True' and the legacy Monitor has no  *)
(* stop.                                                                   *)
(***************************************************************************)
InitLoop ==
  /\ EnumIdle
  /\ CycleIdle
  /\ HttpIdle
  /\ ServiceIdle
  /\ BridgeIdle
  /\ PollIdle
  /\ impl \in Impls
  /\ config \in CycleConfigs
  /\ known_devices = {}
  /\ alive = TRUE
  /\ op = "init"
  /\ polled = <<>>
  /\ log = <<>>
  /\ call = NoCall
  /\ ret = NoRet
  /\ loop = [pc |-> "top", running |-> TRUE, cause |-> "none"]

\* A variant of the loop condition that never reads the flag.
WhileConditionTrue(im, flag) == TRUE

\* The loop condition: while self.running (monitor.py) / while True
\* (adb_monitor.py).
WhileCondition(im, flag) == IF im = "pkg" THEN flag ELSE TRUE

\* The test at the loop top and, when it passes, the first statement of
\* check_devices; when it fails the loop is left.
LoopTest ==
  /\ loop.pc = "top"
  /\ IF WhileCondition(impl, loop.running)
       THEN /\ CycleBegin
            /\ loop' = [loop EXCEPT !.pc = "cycle"]
       ELSE /\ loop' = [loop EXCEPT !.pc = "exited", !.cause = "stop"]
            /\ UNCHANGED <<known_devices, cycleVars>>

\* One statement of the cycle in flight; an exception of the executor
\* leaves check_devices and the loop.
LoopCycleStep ==
  /\ loop.pc = "cycle"
  /\ \/ CycleConnect
     \/ CycleDifference
     \/ CycleDisconnect
  /\ loop' = IF cyc'.pc = "dead"
               THEN [loop EXCEPT !.pc = "exited", !.cause = "exception"]
               ELSE loop

\* The last statement of the cycle and time.sleep(check_interval).
LoopCycleEnd ==
  /\ loop.pc = "cycle"
  /\ CycleAssign
  /\ loop' = [loop EXCEPT !.pc = "top"]

\* ADBStatusService.stop on the object that runs the loop, called from
\* another thread: if self.running: self.running = False.
LoopStop ==
  /\ impl = "pkg"
  /\ loop.pc \in {"top", "cycle"}
  /\ loop.running
  /\ loop' = [loop EXCEPT !.running = FALSE]
  /\ UNCHANGED <<known_devices, cycleVars>>

\* What no step of this specification changes.
LoopFrame ==
  UNCHANGED <<impl, config, alive, op, polled, log, call, ret, enumVars, httpVars,
              serviceVars, bridgeVars, pollVars>>

\* A step of the thread that runs the loop.
LoopThread == (LoopTest \/ LoopCycleStep \/ LoopCycleEnd) /\ LoopFrame

NextLoop ==
  /\ \/ LoopTest
     \/ LoopCycleStep
     \/ LoopCycleEnd
     \/ LoopStop
  /\ LoopFrame

SpecLoop == InitLoop /\ [][NextLoop]_vars

\* The loop runs on the thread that called _run_service: the enumerator
\* returns, time.sleep returns and every action script terminates, so the
\* thread eventually executes its next statement.
SpecLoopFair == SpecLoop /\ WF_vars(LoopThread)

\* C33: clearing the running flag interrupts nothing: the cycle in flight
\* goes on statement by statement until its last statement (or until an
\* exception of the executor); the loop is left only at its top, where no
\* new cycle begins once the flag is clear; and after the flag was cleared
\* the loop is eventually left.
C33_StopAtSafePoint ==
  /\ [][/\ LoopStop => (cyc' = cyc /\ known_devices' = known_devices /\ loop'.pc = loop.pc)
        /\ (loop.pc = "cycle" /\ loop'.pc # "cycle") =>
             \/ CycleDone /\ loop'.pc = "top" /\ cyc' = NoCycle
             \/ cyc'.pc = "dead" /\ loop'.cause = "exception"
        /\ (loop.pc = "top" /\ ~loop.running /\ loop' # loop) =>
             (loop'.pc = "exited" /\ cyc' = cyc /\ known_devices' = known_devices)
        /\ loop'.pc = "exited" /\ loop'.cause = "stop" => (loop.pc = "exited" \/ ~loop.running)]_vars
  /\ ~loop.running ~> loop.pc = "exited"

\* The flag is clear while a cycle is in flight: the cycle has gone on to
\* its second loop and has raised a Disconnect event.
C33_Witness ==
  /\ ~loop.running
  /\ loop.pc = "cycle"
  /\ cyc.pc = "disconnect"
  /\ cyc.i > 1
  /\ ~Raised(cyc.events)
====
